---- MODULE Spec2Model ----
(***************************************************************************)
(* Model of the conversational turn controller of whisplay-ai-chatbot:     *)
(*   - splitSentences / purifyTextForTTS (utils/index.ts)                  *)
(*   - StreamResponser (core/StreamResponsor.ts)                           *)
(*   - ChatFlow (core/ChatFlow.ts)                                         *)
(*   - playAudioData / stopPlaying (device/audio.ts)                       *)
(* Text is a sequence of one-character strings, so that trim, toLowerCase, *)
(* the newline replacement and the sentence regex are computed as the code *)
(* computes them.                                                          *)
(***************************************************************************)
EXTENDS Integers, Sequences, FiniteSets, TLC

\* ------------------------------------------------------------------------
\* Bounds of the model
\* ------------------------------------------------------------------------
MaxGen == 2
MaxListen == 2
MaxTextLen == 4
MaxClientCalls == 4
MaxThinking == 1
\* tool-call rounds of one LLM call, and chunks of one streamed completion
MaxRounds == 2
MaxChunks == 2
MaxCandidates == 3

\* ------------------------------------------------------------------------
\* Characters and strings
\* ------------------------------------------------------------------------
\* \s of the JavaScript regex and the characters String.prototype.trim removes
Whitespace == {" ", "\n", "\t"}

\* the character class of the splitSentences regex: the ASCII marks . ! ? ,
\* and the full-width marks U+3002, U+FF01, U+FF1F, U+FF0C, each full-width
\* mark being one character written here by its code point
Terminal == {".", "!", "?", ",", "u3002", "uFF01", "uFF1F", "uFF0C"}

Digits == {"0", "1", "2", "3", "4", "5", "6", "7", "8", "9"}

\* the characters purifyTextForTTS removes: * # ~ and the emoji class, which
\* is represented by the two emoji the program itself displays (U+1F60A,
\* U+1F914), each one character written by its code point
StrippedForTTS == {"*", "#", "~", "u1F60A", "u1F914"}

RECURSIVE TrimLeft(_)
TrimLeft(s) ==
  IF s = <<>> THEN <<>>
  ELSE IF Head(s) \in Whitespace THEN TrimLeft(Tail(s)) ELSE s

RECURSIVE TrimRight(_)
TrimRight(s) ==
  IF s = <<>> THEN <<>>
  ELSE IF s[Len(s)] \in Whitespace THEN TrimRight(SubSeq(s, 1, Len(s) - 1)) ELSE s

\* String.prototype.trim
Trim(s) == TrimRight(TrimLeft(s))

UpperCase == <<"A","B","C","D","E","F","G","H","I","J","K","L","M",
               "N","O","P","Q","R","S","T","U","V","W","X","Y","Z">>
LowerCase == <<"a","b","c","d","e","f","g","h","i","j","k","l","m",
               "n","o","p","q","r","s","t","u","v","w","x","y","z">>

LowerChar(c) ==
  IF \E i \in 1..26 : UpperCase[i] = c
  THEN LowerCase[CHOOSE i \in 1..26 : UpperCase[i] = c]
  ELSE c

\* String.prototype.toLowerCase
ToLowerCase(s) == [i \in 1..Len(s) |-> LowerChar(s[i])]

\* text.replace(/\n/g, " ")
ReplaceNewlines(s) == [i \in 1..Len(s) |-> IF s[i] = "\n" THEN " " ELSE s[i]]

RECURSIVE Join(_, _)
\* Array.prototype.join(sep)
Join(ss, sep) ==
  IF ss = <<>> THEN <<>>
  ELSE IF Len(ss) = 1 THEN ss[1]
  ELSE ss[1] \o sep \o Join(Tail(ss), sep)

\* ------------------------------------------------------------------------
\* utils/index.ts: purifyTextForTTS
\* ------------------------------------------------------------------------
KeptForTTS(c) == c \notin StrippedForTTS

purifyTextForTTS(text) == Trim(SelectSeq(text, KeptForTTS))

\* ------------------------------------------------------------------------
\* utils/index.ts: splitSentences
\* ------------------------------------------------------------------------
\* merge budget of splitSentences
MergeBudget == 60

\* the regex without its lookahead (?=\s|$): every terminal character ends
\* a match
RegexMatchEndNoLookahead(text, lastIndex) ==
  LET ends == {q \in (lastIndex + 1)..Len(text) : text[q] \in Terminal}
  IN IF ends = {} THEN 0
     ELSE CHOOSE q \in ends : \A r \in ends : q <= r

\* One regex.exec from lastIndex (0-based): the lazy .*? makes the match end at
\* the first terminal character that is followed by whitespace or end of input.
\* Returns the 1-based position of that terminal, 0 when there is no match.
RegexMatchEnd(text, lastIndex) ==
  LET ends == {q \in (lastIndex + 1)..Len(text) :
                 /\ text[q] \in Terminal
                 /\ (q = Len(text) \/ text[q + 1] \in Whitespace)}
  IN IF ends = {} THEN 0
     ELSE CHOOSE q \in ends : \A r \in ends : q <= r

\* the test "contains a digit or a terminal mark" applied to a candidate
NoiseTest(sentence) ==
  \E i \in 1..Len(sentence) : sentence[i] \in (Digits \cup Terminal)

RECURSIVE MatchLoop(_, _, _)
\* the while loop over regex.exec: raw sentence candidates and the last index
MatchLoop(text, lastIndex, sentences) ==
  LET q == RegexMatchEnd(text, lastIndex)
      sentence == Trim(SubSeq(text, lastIndex + 1, q))
  IN IF q = 0 THEN [sentences |-> sentences, lastIndex |-> lastIndex]
     ELSE IF NoiseTest(sentence)
          THEN MatchLoop(text, q, Append(sentences, sentence))
          ELSE [sentences |-> sentences, lastIndex |-> lastIndex]

RECURSIVE MergeShort(_, _, _)
\* the forEach that merges short sentences, and the final flush of the buffer
MergeShort(sentences, buffer, newSentences) ==
  IF sentences = <<>>
  THEN IF buffer # <<>> THEN Append(newSentences, buffer) ELSE newSentences
  ELSE LET sentence == Head(sentences)
           glued == buffer \o sentence \o <<" ">>
       IN IF Len(glued) <= MergeBudget
          THEN MergeShort(Tail(sentences), glued, newSentences)
          ELSE MergeShort(Tail(sentences), sentence \o <<" ">>,
                          IF buffer # <<>> THEN Append(newSentences, buffer)
                                           ELSE newSentences)

\* splitSentences without the merge pass: every candidate is its own chunk
splitSentencesUnmerged(text) ==
  LET m == MatchLoop(text, 0, <<>>)
  IN [sentences |-> [i \in 1..Len(m.sentences) |-> m.sentences[i] \o <<" ">>],
      remaining |-> Trim(SubSeq(text, m.lastIndex + 1, Len(text)))]

splitSentences(text) ==
  LET m == MatchLoop(text, 0, <<>>)
  IN [sentences |-> MergeShort(m.sentences, <<>>, <<>>),
      remaining |-> Trim(SubSeq(text, m.lastIndex + 1, Len(text)))]

\* ------------------------------------------------------------------------
\* State
\* ------------------------------------------------------------------------
VARIABLES
  \* ChatFlow fields
  currentFlowName, answerId, translateMode, asrText, partialThinking,
  hasAnswerStarted,
  \* the recording path, as the number of the entry into Listening that set
  \* it (`user-${Date.now()}`: two entries are more than a millisecond
  \* apart); 0 is the initial ''
  currentRecordFilePath,
  \* device/display: the handlers registered last, and what the screen shows
  pressHandler, releaseHandler, display,
  \* utils/image: latestGenImg is set (TRUE) or '' (FALSE)
  latestGenImg,
  \* StreamResponser fields; srAnswerId is StreamResponser.answerId
  partialContent, fullResponse, parsedSentences, srAnswerId, isStartSpeak,
  speakArray, playEndResolve,
  \* promises and loops the StreamResponser has created
  tts, pumps, handles,
  \* device/audio: player.isPlaying
  playerIsPlaying,
  \* work in flight outside the core: LLM streams, recognitions, timers
  streams, asrRaces, confirmTimers, nListen,
  \* the generations a button press has interrupted
  interrupted,
  \* the segmentation harness and the client harness
  seg, client,
  \* one top-level call of chatWithLLMStream and what its callbacks have seen
  llm,
  \* one call of translateWithDiarization and process.env.SYSTEM_PROMPT
  tr

vars == <<currentFlowName, answerId, translateMode, asrText, partialThinking,
          hasAnswerStarted, currentRecordFilePath, pressHandler,
          releaseHandler, display, latestGenImg, partialContent, fullResponse, parsedSentences,
          srAnswerId, isStartSpeak, speakArray, playEndResolve, tts, pumps,
          handles, playerIsPlaying, streams, asrRaces, confirmTimers, nListen,
          interrupted, seg, client, llm, tr>>

\* The state as one record, so that a handler is a function from state to
\* state and handlers compose in the order the code calls them.  thens is
\* per-step: the promise continuations queued as microtasks.  trace is
\* per-step too: what the StreamResponser has called so far in this step.
W == [currentFlowName |-> currentFlowName, answerId |-> answerId,
      translateMode |-> translateMode, asrText |-> asrText,
      partialThinking |-> partialThinking,
      hasAnswerStarted |-> hasAnswerStarted,
      currentRecordFilePath |-> currentRecordFilePath,
      pressHandler |-> pressHandler, releaseHandler |-> releaseHandler,
      display |-> display, latestGenImg |-> latestGenImg,
      partialContent |-> partialContent, fullResponse |-> fullResponse,
      parsedSentences |-> parsedSentences, srAnswerId |-> srAnswerId,
      isStartSpeak |-> isStartSpeak, speakArray |-> speakArray,
      playEndResolve |-> playEndResolve, tts |-> tts, pumps |-> pumps,
      handles |-> handles, playerIsPlaying |-> playerIsPlaying,
      streams |-> streams, asrRaces |-> asrRaces,
      confirmTimers |-> confirmTimers, nListen |-> nListen,
      interrupted |-> interrupted,
      thens |-> {}, trace |-> <<>>]

\* pump loops that have returned are dropped from the bookkeeping
Running(pump) == pump.pc # "done"

Commit(w) ==
  /\ currentFlowName' = w.currentFlowName
  /\ answerId' = w.answerId
  /\ translateMode' = w.translateMode
  /\ asrText' = w.asrText
  /\ partialThinking' = w.partialThinking
  /\ hasAnswerStarted' = w.hasAnswerStarted
  /\ currentRecordFilePath' = w.currentRecordFilePath
  /\ pressHandler' = w.pressHandler
  /\ releaseHandler' = w.releaseHandler
  /\ display' = w.display
  /\ latestGenImg' = w.latestGenImg
  /\ partialContent' = w.partialContent
  /\ fullResponse' = w.fullResponse
  /\ parsedSentences' = w.parsedSentences
  /\ srAnswerId' = w.srAnswerId
  /\ isStartSpeak' = w.isStartSpeak
  /\ speakArray' = w.speakArray
  /\ playEndResolve' = w.playEndResolve
  /\ tts' = w.tts
  /\ pumps' = SelectSeq(w.pumps, Running)
  /\ handles' = w.handles
  /\ playerIsPlaying' = w.playerIsPlaying
  /\ streams' = w.streams
  /\ asrRaces' = w.asrRaces
  /\ confirmTimers' = w.confirmTimers
  /\ nListen' = w.nListen
  /\ interrupted' = w.interrupted

\* device/display: display(fields) keeps the fields it is not given
Display(w, status, text, hasText) ==
  [w EXCEPT
     !.display = [status |-> status,
                  text |-> IF hasText THEN text ELSE @.text,
                  image |-> @.image]]

DisplayImage(w, shown) == [w EXCEPT !.display.image = shown]

\* ------------------------------------------------------------------------
\* ChatFlow: the callbacks handed to the StreamResponser (constructor)
\* ------------------------------------------------------------------------
sentencesCallback(w, sentences) ==
  IF w.currentFlowName # "answer" THEN w
  ELSE LET w1 == IF ~w.hasAnswerStarted
                 THEN [w EXCEPT !.hasAnswerStarted = TRUE,
                                !.partialThinking = <<>>]
                 ELSE w
       IN Display(w1, "answering", Join(sentences, <<" ">>), TRUE)

textCallback(w, text) ==
  IF w.currentFlowName # "answer" THEN w
  ELSE Display(w, "answering", text, text # <<>>)

\* ------------------------------------------------------------------------
\* StreamResponser
\* ------------------------------------------------------------------------
Called(w, ev, arg) == [w EXCEPT !.trace = Append(@, [ev |-> ev, arg |-> arg])]

\* this.sentencesCallback?.(this.parsedSentences)
notifySentences(w, sentences) ==
  sentencesCallback(Called(w, "sentences", sentences), sentences)

\* this.textCallback?.(this.parsedSentences.join(" "))
notifyText(w, text) == textCallback(Called(w, "text", <<text>>), text)

DonePump == [currentIndex |-> 0, pc |-> "done", entry |-> 0]

\* this.playEndResolve(): the resolver of the handle created last, or the
\* initial no-op (0).  Resolving queues the handle's continuation.
CallPlayEndResolve(w, by) ==
  IF w.playEndResolve = 0 THEN w
  ELSE IF w.handles[w.playEndResolve].resolved THEN w
  ELSE [w EXCEPT !.handles[w.playEndResolve].resolved = TRUE,
                 !.handles[w.playEndResolve].by = by,
                 !.thens = @ \cup {w.playEndResolve}]

\* playNext of pump p, up to its next await
playNext(w, p) ==
  IF w.pumps[p].currentIndex < Len(w.speakArray)
  THEN [w EXCEPT !.pumps[p].pc = "await",
                 !.pumps[p].entry = w.speakArray[w.pumps[p].currentIndex + 1]]
  ELSE IF w.partialContent # <<>>
  THEN [w EXCEPT !.pumps[p].pc = "delay", !.pumps[p].entry = 0]
  ELSE [CallPlayEndResolve(w, "pump") EXCEPT
          !.isStartSpeak = FALSE,
          !.speakArray = <<>>,
          !.pumps[p] = DonePump]

playAudioInOrder(w) ==
  playNext([w EXCEPT !.pumps = Append(@, [currentIndex |-> 0, pc |-> "await",
                                          entry |-> 0])],
           Len(w.pumps) + 1)

\* device/audio playAudioData as called by pump p for entry t: empty data or a
\* duration <= 0 resolves at once, otherwise the player is marked playing
\* and the promise stays pending until the playback completes
playAudioData(w, p, t) ==
  LET w1 == [w EXCEPT !.tts[t].nPlay = @ + 1,
                      !.tts[t].playLate = @ \/ (w.tts[t].gen \in w.interrupted)]
  IN IF w.tts[t].result = "ok"
     THEN [w1 EXCEPT !.playerIsPlaying = TRUE, !.pumps[p].pc = "playing"]
     ELSE [w1 EXCEPT !.pumps[p].pc = "played"]

\* after "await playAudioData(...)", resolved or rejected: currentIndex++ and
\* playNext()
afterPlay(w, p) ==
  playNext([w EXCEPT !.pumps[p].currentIndex = @ + 1], p)

\* a pump without the try/catch: a rejected synthesis ends the loop
awaitedNoCatch(w, p) ==
  IF w.tts[w.pumps[p].entry].result = "failed"
  THEN [w EXCEPT !.pumps[p] = DonePump]
  ELSE playAudioData(w, p, w.pumps[p].entry)

\* pump p resumes from "await this.speakArray[currentIndex]": a rejected
\* synthesis is caught, a fulfilled one is handed to playAudioData
awaited(w, p) ==
  IF w.tts[w.pumps[p].entry].result = "failed"
  THEN afterPlay(w, p)
  ELSE playAudioData(w, p, w.pumps[p].entry)

\* partial() that forgets this.partialContent = remaining
partialKeepsContent(w, text, id) ==
  IF id < w.srAnswerId THEN w
  ELSE LET content == ReplaceNewlines(w.partialContent \o text)
           r == splitSentences(content)
           w1 == [w EXCEPT !.srAnswerId = id,
                           !.fullResponse = @ \o text,
                           !.parsedSentences = @ \o r.sentences]
           w2 == IF Len(r.sentences) > 0
                 THEN notifySentences(w1, w1.parsedSentences)
                 ELSE w1
       IN [w2 EXCEPT !.partialContent = content]

partial(w, text, id) ==
  IF id < w.srAnswerId THEN w
  ELSE LET content == ReplaceNewlines(w.partialContent \o text)
           r == splitSentences(content)
           w1 == [w EXCEPT !.srAnswerId = id,
                           !.fullResponse = @ \o text,
                           !.parsedSentences = @ \o r.sentences]
           w2 == IF Len(r.sentences) > 0
                 THEN notifySentences(w1, w1.parsedSentences)
                 ELSE w1
       IN [w2 EXCEPT !.partialContent = r.remaining]

\* ttsFunc(cleanResponse) and the push of its promise onto speakArray
ttsFunc(w, text, id) ==
  [Called(w, "tts", <<text>>) EXCEPT
     !.tts = Append(@, [text |-> text, gen |-> id, st |-> "pending",
                        result |-> "none", nPlay |-> 0,
                        playLate |-> FALSE,
                        late |-> (id \in w.interrupted)]),
     !.speakArray = Append(@, Len(w.tts) + 1)]

\* endPartial() without the test "answerId < this.answerId"
endPartialAnyId(w, id) ==
  LET w1 == [w EXCEPT !.srAnswerId = id]
      w2 == IF w1.partialContent # <<>>
            THEN [notifySentences(
                    [w1 EXCEPT !.parsedSentences = Append(@, w1.partialContent)],
                    Append(w1.parsedSentences, w1.partialContent))
                  EXCEPT !.partialContent = <<>>]
            ELSE w1
      cleanResponse == purifyTextForTTS(w2.fullResponse)
      w3 == IF Trim(cleanResponse) # <<>>
            THEN ttsFunc(w2, cleanResponse, id)
            ELSE w2
      w4 == notifyText(w3, Join(w3.parsedSentences, <<" ">>))
  IN [w4 EXCEPT !.parsedSentences = <<>>, !.fullResponse = <<>>]

endPartial(w, id) ==
  IF id < w.srAnswerId THEN w
  ELSE LET w1 == [w EXCEPT !.srAnswerId = id]
           w2 == IF w1.partialContent # <<>>
                 THEN [notifySentences(
                         [w1 EXCEPT !.parsedSentences = Append(@, w1.partialContent)],
                         Append(w1.parsedSentences, w1.partialContent))
                       EXCEPT !.partialContent = <<>>]
                 ELSE w1
           cleanResponse == purifyTextForTTS(w2.fullResponse)
           w3 == IF Trim(cleanResponse) # <<>>
                 THEN ttsFunc(w2, cleanResponse, id)
                 ELSE w2
           w4 == notifyText(w3, Join(w3.parsedSentences, <<" ">>))
       IN [w4 EXCEPT !.parsedSentences = <<>>, !.fullResponse = <<>>]

\* the .finally callback of the promise ttsFunc returned
ttsFinally(w) ==
  IF ~w.isStartSpeak
  THEN [playAudioInOrder(w) EXCEPT !.isStartSpeak = TRUE]
  ELSE w

getPlayEndPromise(w, owner) ==
  [w EXCEPT !.handles = Append(@, [resolved |-> FALSE, by |-> "none",
                                   owner |-> owner, gen |-> w.answerId]),
            !.playEndResolve = Len(w.handles) + 1]

\* device/audio stopPlaying
stopPlaying(w) ==
  IF w.playerIsPlaying
  THEN [w EXCEPT !.playerIsPlaying = FALSE]
  ELSE w

\* stop() that forgets to empty the playback queue
stopKeepsQueue(w) ==
  stopPlaying(
    CallPlayEndResolve([w EXCEPT !.isStartSpeak = FALSE,
                                 !.partialContent = <<>>,
                                 !.parsedSentences = <<>>,
                                 !.fullResponse = <<>>],
                       "stop"))

stop(w) ==
  stopPlaying(
    CallPlayEndResolve([w EXCEPT !.speakArray = <<>>,
                                 !.isStartSpeak = FALSE,
                                 !.partialContent = <<>>,
                                 !.parsedSentences = <<>>,
                                 !.fullResponse = <<>>],
                       "stop"))

\* ------------------------------------------------------------------------
\* ChatFlow.setCurrentFlow
\* ------------------------------------------------------------------------
\* the phrases compared with lowerResult for isTranslateModeCommand
TranslateModeCommands ==
  { <<"t","r","a","n","s","l","a","t","e"," ","m","o","d","e">>,
    <<"t","r","a","n","s","l","a","t","i","o","n"," ","m","o","d","e">>,
    <<"a","c","t","i","v","a","t","e"," ","t","r","a","n","s","l","a","t","e"," ","m","o","d","e">>,
    <<"e","n","a","b","l","e"," ","t","r","a","n","s","l","a","t","e"," ","m","o","d","e">>,
    <<"t","u","r","n"," ","o","n"," ","t","r","a","n","s","l","a","t","e"," ","m","o","d","e">> }

\* the phrases compared with lowerResult for isNormalModeCommand
NormalModeCommands ==
  { <<"n","o","r","m","a","l"," ","m","o","d","e">>,
    <<"c","h","a","t"," ","m","o","d","e">>,
    <<"d","i","s","a","b","l","e"," ","t","r","a","n","s","l","a","t","e"," ","m","o","d","e">>,
    <<"d","e","a","c","t","i","v","a","t","e"," ","t","r","a","n","s","l","a","t","e"," ","m","o","d","e">>,
    <<"t","u","r","n"," ","o","f","f"," ","t","r","a","n","s","l","a","t","e"," ","m","o","d","e">> }

\* result.toLowerCase().trim()
lowerResult(result) == Trim(ToLowerCase(result))

\* the command test done with includes() instead of ===
isTranslateModeCommandIncludes(result) ==
  \E phrase \in TranslateModeCommands :
    \E i \in 1..(Len(lowerResult(result)) - Len(phrase) + 1) :
      SubSeq(lowerResult(result), i, i + Len(phrase) - 1) = phrase

isTranslateModeCommand(result) == lowerResult(result) \in TranslateModeCommands

isNormalModeCommand(result) == lowerResult(result) \in NormalModeCommands

\* the value the button press resolves the recognition race with
UserPress == <<"[UserPress]">>

Handler(kind) == [kind |-> kind, race |-> 0]

\* device/display: onButtonPressed(handler) and onButtonReleased(handler)
\* replace the handler registered before
onButtonPressed(w, handler) == [w EXCEPT !.pressHandler = handler]

onButtonReleased(w, handler) == [w EXCEPT !.releaseHandler = handler]

\* case "sleep" that also resets the mode flag
enterSleepResetsMode(w) ==
  Display([w EXCEPT !.currentFlowName = "sleep",
                    !.translateMode = FALSE,
                    !.pressHandler = Handler("toListening"),
                    !.releaseHandler = "noop"],
          "idle", <<"Press the button to start">>,
          w.display.text = <<"Listening...">>)

\* case "sleep"
enterSleep(w) ==
  Display([w EXCEPT !.currentFlowName = "sleep",
                    !.pressHandler = Handler("toListening"),
                    !.releaseHandler = "noop"],
          "idle",
          IF w.translateMode THEN <<"Translate Mode\nPress to record">>
                             ELSE <<"Press the button to start">>,
          w.display.text = <<"Listening...">>)

\* case "listening" that records to the path of the previous recording
enterListeningSamePath(w) ==
  Display([w EXCEPT !.currentFlowName = "listening",
                    !.pressHandler = Handler("noop"),
                    !.releaseHandler = "stopRecording",
                    !.nListen = @ + 1],
          "listening", <<"Listening...">>, TRUE)

\* case "listening"
enterListening(w) ==
  Display([w EXCEPT !.currentFlowName = "listening",
                    !.currentRecordFilePath = w.nListen + 1,
                    !.pressHandler = Handler("noop"),
                    !.releaseHandler = "stopRecording",
                    !.nListen = @ + 1],
          "listening", <<"Listening...">>, TRUE)

\* case "asr"
enterAsr(w) ==
  Display([w EXCEPT !.currentFlowName = "asr",
                    !.asrRaces = Append(@, [settled |-> FALSE,
                                            asrPending |-> TRUE,
                                            path |-> w.currentRecordFilePath]),
                    !.pressHandler = [kind |-> "asrResolve",
                                      race |-> Len(w.asrRaces) + 1],
                    !.releaseHandler = "noop"],
          "recognizing", <<>>, FALSE)

\* case "answer" that forgets this.answerId += 1
enterAnswerSameId(w, resp) ==
  getPlayEndPromise(
    [w EXCEPT !.currentFlowName = "answer",
              !.partialThinking = <<>>,
              !.hasAnswerStarted = FALSE,
              !.streams = Append(@, [frags |-> resp, st |-> "active",
                                     resp |-> resp,
                                     listens |-> w.nListen]),
              !.pressHandler = Handler("stopToListening"),
              !.releaseHandler = "noop"],
    "flow")

\* case "answer" without the second registration of the press handler
enterAnswerFirstHandler(w, resp) ==
  LET w1 == onButtonReleased(
              onButtonPressed([w EXCEPT !.currentFlowName = "answer",
                                        !.answerId = @ + 1],
                              Handler("toListening")),
              "noop")
  IN getPlayEndPromise(
       [w1 EXCEPT !.partialThinking = <<>>,
                  !.hasAnswerStarted = FALSE,
                  !.streams = Append(@, [frags |-> resp, st |-> "active",
                                         resp |-> resp,
                                         listens |-> w.nListen])],
       "flow")

\* case "answer"; resp is what the LLM stream it starts is going to deliver.
\* The press handler is registered twice: first the one that only goes to
\* "listening", then, after getPlayEndPromise, the one that calls stop() first
enterAnswer(w, resp) ==
  LET w1 == onButtonReleased(
              onButtonPressed([w EXCEPT !.currentFlowName = "answer",
                                        !.answerId = @ + 1],
                              Handler("toListening")),
              "noop")
      w2 == getPlayEndPromise(
              [w1 EXCEPT !.partialThinking = <<>>,
                         !.hasAnswerStarted = FALSE,
                         !.streams = Append(@, [frags |-> resp, st |-> "active",
                                                resp |-> resp,
                                                listens |-> w.nListen])],
              "flow")
  IN onButtonReleased(onButtonPressed(w2, Handler("stopToListening")), "noop")

\* case "image"
enterImage(w) ==
  [w EXCEPT !.pressHandler = Handler("imageToListening"),
            !.releaseHandler = "noop"]

\* setCurrentFlow that records the requested name before the switch
setCurrentFlowRecordsName(w, flowName, resp) ==
  CASE flowName = "sleep" -> enterSleep(w)
    [] flowName = "listening" -> enterListening(w)
    [] flowName = "asr" -> enterAsr(w)
    [] flowName = "answer" -> enterAnswer(w, resp)
    [] flowName = "image" -> enterImage(w)
    [] OTHER -> [w EXCEPT !.currentFlowName = flowName]

setCurrentFlow(w, flowName, resp) ==
  CASE flowName = "sleep" -> enterSleep(w)
    [] flowName = "listening" -> enterListening(w)
    [] flowName = "asr" -> enterAsr(w)
    [] flowName = "answer" -> enterAnswer(w, resp)
    [] flowName = "image" -> enterImage(w)
    [] OTHER -> w

\* the .then handler whose activation branch forgets its return and goes on
\* to the routing of an ordinary sentence
asrThenNoReturn(w, result, resp) ==
  IF w.currentFlowName # "asr" THEN w
  ELSE IF result = UserPress THEN setCurrentFlow(w, "listening", <<>>)
  ELSE IF result # <<>>
  THEN IF isTranslateModeCommand(result)
       THEN setCurrentFlow(
              Display([w EXCEPT !.translateMode = TRUE,
                                !.confirmTimers = @ + 1,
                                !.asrText = result],
                      "recognizing", result, TRUE),
              "answer", resp)
       ELSE IF isNormalModeCommand(result)
       THEN Display([w EXCEPT !.translateMode = FALSE,
                              !.confirmTimers = @ + 1],
                    "idle", <<"Normal Chat Mode">>, TRUE)
       ELSE setCurrentFlow(
              Display([w EXCEPT !.asrText = result], "recognizing", result, TRUE),
              "answer", resp)
  ELSE setCurrentFlow(w, "sleep", <<>>)

\* the .then handler without the test for an empty result
asrThenNoEmptyCheck(w, result, resp) ==
  IF w.currentFlowName # "asr" THEN w
  ELSE IF result = UserPress THEN setCurrentFlow(w, "listening", <<>>)
  ELSE IF isTranslateModeCommand(result)
  THEN Display([w EXCEPT !.translateMode = TRUE,
                         !.confirmTimers = @ + 1],
               "idle",
               <<"Translate Mode Active\nPress to record conversation">>,
               TRUE)
  ELSE IF isNormalModeCommand(result)
  THEN Display([w EXCEPT !.translateMode = FALSE,
                         !.confirmTimers = @ + 1],
               "idle", <<"Normal Chat Mode">>, TRUE)
  ELSE setCurrentFlow(
         Display([w EXCEPT !.asrText = result], "recognizing", result, TRUE),
         "answer", resp)

\* the .then of Promise.race([recognizeAudio(...), press]) in case "asr"
asrThen(w, result, resp) ==
  IF w.currentFlowName # "asr" THEN w
  ELSE IF result = UserPress THEN setCurrentFlow(w, "listening", <<>>)
  ELSE IF result # <<>>
  THEN IF isTranslateModeCommand(result)
       THEN Display([w EXCEPT !.translateMode = TRUE,
                              !.confirmTimers = @ + 1],
                    "idle",
                    <<"Translate Mode Active\nPress to record conversation">>,
                    TRUE)
       ELSE IF isNormalModeCommand(result)
       THEN Display([w EXCEPT !.translateMode = FALSE,
                              !.confirmTimers = @ + 1],
                    "idle", <<"Normal Chat Mode">>, TRUE)
       ELSE setCurrentFlow(
              Display([w EXCEPT !.asrText = result], "recognizing", result, TRUE),
              "answer", resp)
  ELSE setCurrentFlow(w, "sleep", <<>>)

\* getPlayEndPromise().then(...) in case "answer"; a handle obtained by
\* another caller has no continuation in ChatFlow
playEndThen(w, h) ==
  IF w.handles[h].owner # "flow" THEN w
  ELSE IF w.currentFlowName = "answer"
  THEN IF w.latestGenImg
       THEN setCurrentFlow(DisplayImage([w EXCEPT !.latestGenImg = FALSE], TRUE),
                           "image", <<>>)
       ELSE setCurrentFlow(w, "sleep", <<>>)
  ELSE w

partialThinkingCallback(w, token, id) ==
  IF w.currentFlowName # "answer" \/ id < w.answerId THEN w
  ELSE Display([w EXCEPT !.partialThinking = @ \o token],
               "Thinking", w.partialThinking \o token, TRUE)

\* the button handlers, with the one of case "answer" that is registered
\* first (line 209): it enters "listening" without calling stop()
pressedNoStop(w) ==
  CASE w.pressHandler.kind = "toListening" -> setCurrentFlow(w, "listening", <<>>)
    [] w.pressHandler.kind = "asrResolve" ->
         IF w.asrRaces[w.pressHandler.race].settled THEN w
         ELSE asrThen([w EXCEPT !.asrRaces[w.pressHandler.race].settled = TRUE],
                      UserPress, <<>>)
    [] w.pressHandler.kind = "stopToListening" ->
         setCurrentFlow([w EXCEPT !.interrupted = @ \cup {w.answerId}],
                        "listening", <<>>)
    [] w.pressHandler.kind = "imageToListening" ->
         setCurrentFlow(DisplayImage(w, FALSE), "listening", <<>>)
    [] OTHER -> w

\* the button handlers registered by setCurrentFlow
pressed(w) ==
  CASE w.pressHandler.kind = "toListening" -> setCurrentFlow(w, "listening", <<>>)
    [] w.pressHandler.kind = "asrResolve" ->
         IF w.asrRaces[w.pressHandler.race].settled THEN w
         ELSE asrThen([w EXCEPT !.asrRaces[w.pressHandler.race].settled = TRUE],
                      UserPress, <<>>)
    [] w.pressHandler.kind = "stopToListening" ->
         setCurrentFlow([stop(w) EXCEPT !.interrupted = @ \cup {w.answerId}],
                        "listening", <<>>)
    [] w.pressHandler.kind = "imageToListening" ->
         setCurrentFlow(DisplayImage(w, FALSE), "listening", <<>>)
    [] OTHER -> w

\* release in "listening": stop() of recordAudioManually resolves result,
\* whose .then enters "asr"
released(w) ==
  IF w.releaseHandler = "stopRecording"
  THEN setCurrentFlow(w, "asr", <<>>)
  ELSE w

\* ------------------------------------------------------------------------
\* The microtasks a step leaves behind: pumps whose awaited promise has
\* settled, and continuations of resolved playback-ended handles
\* ------------------------------------------------------------------------
ReadyPumps(w) ==
  {p \in 1..Len(w.pumps) :
     \/ w.pumps[p].pc = "played"
     \/ /\ w.pumps[p].pc = "await"
        /\ w.pumps[p].entry # 0
        /\ w.tts[w.pumps[p].entry].st = "settled"}

Least(S) == CHOOSE x \in S : \A y \in S : x <= y

RECURSIVE Drain(_)
Drain(w) ==
  IF ReadyPumps(w) # {}
  THEN LET p == Least(ReadyPumps(w))
       IN Drain(IF w.pumps[p].pc = "await"
                THEN awaited(w, p)
                ELSE afterPlay(w, p))
  ELSE IF w.thens # {}
  THEN LET h == Least(w.thens)
       IN Drain(playEndThen([w EXCEPT !.thens = @ \ {h}], h))
  ELSE w

\* ------------------------------------------------------------------------
\* Inputs
\* ------------------------------------------------------------------------
\* what an LLM stream delivers: the fragments, in order, before its stream end
WeatherResponse ==
  <<<<"T","h","e"," ">>,
     <<"w","e","a","t","h","e","r"," ","i","s"," ">>,
     <<"s","u","n","n","y"," ","t","o","d","a","y",".">>>>

Responses == { WeatherResponse, <<<<"*">>>>, <<>> }

\* recognition results beyond the command phrases themselves
OtherAsrTexts ==
  { <<" ","T","r","a","n","s","l","a","t","e"," ","M","o","d","e"," ">>,
    <<"n","o","r","m","a","l"," ","m","o","d","e">>,
    <<"T","r","a","n","s","l","a","t","e"," ","M","o","d","e","!">>,
    <<"p","l","e","a","s","e"," ","t","r","a","n","s","l","a","t","e"," ","m","o","d","e"," ","n","o","w"," ","p","l","e","a","s","e">>,
    <<"h","e","l","l","o">>,
    <<>> }

AsrTexts == TranslateModeCommands \cup NormalModeCommands \cup OtherAsrTexts

\* the recognition results the user's turns produce: a command of each kind,
\* two sentences that are no command, and silence
SpokenTexts ==
  { <<"t","r","a","n","s","l","a","t","e"," ","m","o","d","e">>,
    <<"n","o","r","m","a","l"," ","m","o","d","e">>,
    <<"T","r","a","n","s","l","a","t","e"," ","M","o","d","e","!">>,
    <<"p","l","e","a","s","e"," ","t","r","a","n","s","l","a","t","e"," ","m","o","d","e"," ","n","o","w"," ","p","l","e","a","s","e">>,
    <<>> }

ThinkingToken == <<"h","m">>

\* outcomes of a synthesis: audio, or the empty result of a failed synthesis
TtsResults == {"ok", "empty"}

\* a synthesis function handed to the constructor may also reject
ClientTtsResults == TtsResults \cup {"failed"}

ClientIdle == [calls |-> 0, stops |-> 0, trace |-> <<>>]

\* no call of chatWithLLMStream has been made
LlmIdle == [provider |-> "none", hasClient |-> TRUE, pc |-> "idle",
            depth |-> 0, chunks |-> 0, toolCalls |-> FALSE, partials |-> 0,
            ends |-> 0, late |-> FALSE]

\* translateWithDiarization has not been called; SYSTEM_PROMPT is not set
\* and the module constant systemPrompt holds the built-in prompt
TrIdle == [pc |-> "idle", env |-> "unset", loaded |-> "default",
           original |-> "unset", sent |-> "none", said |-> "none"]

SegIdle == [text |-> <<>>, fed |-> 0, remainder |-> <<>>, sentences |-> <<>>,
            phase |-> "idle"]

\* ------------------------------------------------------------------------
\* Initial state: after new ChatFlow()
\* ------------------------------------------------------------------------
InitCore ==
  /\ currentFlowName = "sleep"
  /\ answerId = 0
  /\ translateMode = FALSE
  /\ asrText = <<>>
  /\ partialThinking = <<>>
  /\ hasAnswerStarted = FALSE
  /\ currentRecordFilePath = 0
  /\ pressHandler = Handler("toListening")
  /\ releaseHandler = "noop"
  /\ display = [status |-> "idle", text |-> <<>>, image |-> FALSE]
  /\ latestGenImg = FALSE
  /\ partialContent = <<>>
  /\ fullResponse = <<>>
  /\ parsedSentences = <<>>
  /\ srAnswerId = 0
  /\ isStartSpeak = FALSE
  /\ speakArray = <<>>
  /\ playEndResolve = 0
  /\ tts = <<>>
  /\ pumps = <<>>
  /\ handles = <<>>
  /\ playerIsPlaying = FALSE
  /\ streams = <<>>
  /\ asrRaces = <<>>
  /\ confirmTimers = 0
  /\ nListen = 0
  /\ interrupted = {}
  /\ client = ClientIdle

Init == InitCore /\ seg = SegIdle /\ llm = LlmIdle /\ tr = TrIdle

\* ------------------------------------------------------------------------
\* Steps of the running program
\* ------------------------------------------------------------------------
Harness == <<seg, client, llm, tr>>

ButtonPress ==
  /\ (pressHandler.kind \notin {"noop"} /\
      ~(pressHandler.kind = "asrResolve" /\ asrRaces[pressHandler.race].settled))
       => nListen < MaxListen
  /\ Commit(Drain(pressed(W)))
  /\ UNCHANGED Harness

ButtonRelease ==
  /\ Commit(Drain(released(W)))
  /\ UNCHANGED Harness

\* the recognition results that reach setCurrentFlow("answer")
AnswerTexts ==
  {text \in AsrTexts :
     text # <<>> /\ ~isTranslateModeCommand(text) /\ ~isNormalModeCommand(text)}

\* recognizeAudio of race r returns text and the handler runs although the
\* press has already settled the race
AsrResultAfterPress(r, text, resp) ==
  /\ asrRaces[r].asrPending
  /\ text \in AnswerTexts => answerId < MaxGen
  /\ Commit(Drain(asrThen([W EXCEPT !.asrRaces[r] = [settled |-> TRUE,
                                                     asrPending |-> FALSE,
                                                     path |-> asrRaces[r].path]],
                          text, resp)))
  /\ UNCHANGED Harness

\* recognizeAudio of race r returns text
AsrResult(r, text, resp) ==
  /\ asrRaces[r].asrPending
  /\ (~asrRaces[r].settled /\ text \in AnswerTexts) => answerId < MaxGen
  /\ LET w == [W EXCEPT !.asrRaces[r] = [settled |-> TRUE, asrPending |-> FALSE,
                                          path |-> asrRaces[r].path]]
     IN Commit(Drain(IF asrRaces[r].settled THEN w ELSE asrThen(w, text, resp)))
  /\ UNCHANGED Harness

\* setTimeout(() => this.setCurrentFlow("sleep"), 2000)
ConfirmTimer ==
  /\ confirmTimers > 0
  /\ Commit(Drain(setCurrentFlow([W EXCEPT !.confirmTimers = @ - 1], "sleep", <<>>)))
  /\ UNCHANGED Harness

\* the stream of generation g delivers its next fragment
StreamPartial(g) ==
  /\ streams[g].st = "active"
  /\ streams[g].frags # <<>>
  /\ Commit(Drain(partial([W EXCEPT !.streams[g].frags = Tail(@)],
                          Head(streams[g].frags), g)))
  /\ UNCHANGED Harness

\* the stream of generation g ends
StreamEnd(g) ==
  /\ streams[g].st = "active"
  /\ streams[g].frags = <<>>
  /\ Commit(Drain(endPartial([W EXCEPT !.streams[g].st = "ended"], g)))
  /\ UNCHANGED Harness

StreamThinking(g) ==
  /\ streams[g].st = "active"
  /\ Len(partialThinking) < MaxThinking * Len(ThinkingToken)
  /\ Commit(Drain(partialThinkingCallback(W, ThinkingToken, g)))
  /\ UNCHANGED Harness

\* a tool called by the stream of generation g runs setLatestGenImg
ToolSetsImage(g) ==
  /\ streams[g].st = "active"
  /\ ~latestGenImg
  /\ Commit([W EXCEPT !.latestGenImg = TRUE])
  /\ UNCHANGED Harness

\* the promise of synthesis t settles; its .finally callback runs
ttsSettled(w, t, result) ==
  ttsFinally([w EXCEPT !.tts[t].st = "settled", !.tts[t].result = result])

TtsSettle(t, result) ==
  /\ tts[t].st = "pending"
  /\ Commit(Drain(ttsSettled(W, t, result)))
  /\ UNCHANGED Harness

\* the promise of playAudioData awaited by pump p settles: the playback
\* completes, or the player process fails and the pump catches the rejection
playSettled(w, p) == afterPlay([w EXCEPT !.playerIsPlaying = FALSE], p)

PlayDone(p) ==
  /\ pumps[p].pc = "playing"
  /\ Commit(Drain(playSettled(W, p)))
  /\ UNCHANGED Harness

\* the one second retry delay of pump p elapses
PumpRetry(p) ==
  /\ pumps[p].pc = "delay"
  /\ Commit(Drain(playNext(W, p)))
  /\ UNCHANGED Harness

\* the program with an LLM that calls no image tool
Next ==
  \/ ButtonPress
  \/ ButtonRelease
  \/ \E r \in {i \in 1..Len(asrRaces) : asrRaces[i].asrPending} :
       \E text \in SpokenTexts :
         \E resp \in (IF text \in AnswerTexts THEN Responses ELSE {<<>>}) :
           AsrResult(r, text, resp)
  \/ ConfirmTimer
  \/ \E g \in 1..Len(streams) : StreamPartial(g)
  \/ \E g \in 1..Len(streams) : StreamEnd(g)
  \/ \E g \in 1..Len(streams) : StreamThinking(g)
  \/ \E t \in 1..Len(tts), result \in TtsResults : TtsSettle(t, result)
  \/ \E p \in 1..Len(pumps) : PlayDone(p)
  \/ \E p \in 1..Len(pumps) : PumpRetry(p)

Spec == Init /\ [][Next]_vars

\* the program with an LLM whose tools may generate images
NextImage ==
  \/ Next
  \/ \E g \in 1..Len(streams) : ToolSetsImage(g)

SpecImage == Init /\ [][NextImage]_vars

\* ------------------------------------------------------------------------
\* The program under the scheduling the runtime guarantees: a stream that
\* has something to deliver delivers it, a pending synthesis settles, a
\* playback in progress completes and an armed timer fires.  Nothing forces
\* the user to press or release the button.
\* ------------------------------------------------------------------------
\* the guards of StreamPartial(g), StreamEnd(g), TtsSettle(t, result),
\* PlayDone(p) and PumpRetry(p)
HasFragment(g) ==
  /\ g <= Len(streams)
  /\ streams[g].st = "active"
  /\ streams[g].frags # <<>>

AtStreamEnd(g) ==
  /\ g <= Len(streams)
  /\ streams[g].st = "active"
  /\ streams[g].frags = <<>>

SynthesisPending == \E t \in 1..Len(tts) : tts[t].st = "pending"

Playing == \E p \in 1..Len(pumps) : pumps[p].pc = "playing"

Delaying == \E p \in 1..Len(pumps) : pumps[p].pc = "delay"

\* weak fairness of each of these actions, with the enabling condition of
\* the action written out as its guard
StreamDelivers(g) ==
  <>[]HasFragment(g) => []<><<StreamPartial(g)>>_vars

StreamCloses(g) ==
  <>[]AtStreamEnd(g) => []<><<StreamEnd(g)>>_vars

SynthesisSettles ==
  <>[]SynthesisPending =>
    []<><<\E t \in 1..Len(tts), result \in TtsResults : TtsSettle(t, result)>>_vars

PlaybackCompletes ==
  <>[]Playing => []<><<\E p \in 1..Len(pumps) : PlayDone(p)>>_vars

RetryElapses ==
  <>[]Delaying => []<><<\E p \in 1..Len(pumps) : PumpRetry(p)>>_vars

Fairness ==
  /\ \A g \in 1..MaxGen : StreamDelivers(g) /\ StreamCloses(g)
  /\ SynthesisSettles
  /\ PlaybackCompletes
  /\ RetryElapses
  /\ WF_vars(ConfirmTimer)

SpecLive == Init /\ [][Next]_vars /\ Fairness

\* ------------------------------------------------------------------------
\* The program with one request for a phase that setCurrentFlow does not
\* know, made at an arbitrary moment.  The LLM answers every sentence with
\* the same response and no thinking tokens, and every synthesis yields
\* audio.
\* ------------------------------------------------------------------------
UnknownFlowNames == {"translate", "Sleep", ""}

RequestUnknownFlow(flowName) ==
  /\ client.calls = 0
  /\ Commit(Drain(setCurrentFlow(W, flowName, <<>>)))
  /\ client' = [client EXCEPT !.calls = 1]
  /\ UNCHANGED <<seg, llm, tr>>

NextUnknownFlow ==
  \/ ButtonPress
  \/ ButtonRelease
  \/ \E r \in {i \in 1..Len(asrRaces) : asrRaces[i].asrPending} :
       \E text \in SpokenTexts :
         AsrResult(r, text, IF text \in AnswerTexts THEN WeatherResponse ELSE <<>>)
  \/ ConfirmTimer
  \/ \E g \in 1..Len(streams) : StreamPartial(g)
  \/ \E g \in 1..Len(streams) : StreamEnd(g)
  \/ \E t \in 1..Len(tts) : TtsSettle(t, "ok")
  \/ \E p \in 1..Len(pumps) : PlayDone(p)
  \/ \E p \in 1..Len(pumps) : PumpRetry(p)
  \/ \E flowName \in UnknownFlowNames : RequestUnknownFlow(flowName)

SpecUnknownFlow == Init /\ [][NextUnknownFlow]_vars

\* ------------------------------------------------------------------------
\* The program with a user who says the phrases of the translate mode guide
\* ------------------------------------------------------------------------
GuideActivation ==
  { <<"T","r","a","n","s","l","a","t","e"," ","m","o","d","e">>,
    <<"T","r","a","n","s","l","a","t","i","o","n"," ","m","o","d","e">>,
    <<"A","c","t","i","v","a","t","e"," ","t","r","a","n","s","l","a","t","e">>,
    <<"E","n","a","b","l","e"," ","t","r","a","n","s","l","a","t","e">> }

GuideDeactivation ==
  { <<"N","o","r","m","a","l"," ","m","o","d","e">>,
    <<"C","h","a","t"," ","m","o","d","e">>,
    <<"D","i","s","a","b","l","e"," ","t","r","a","n","s","l","a","t","e">>,
    <<"D","e","a","c","t","i","v","a","t","e"," ","t","r","a","n","s","l","a","t","e">> }

GuidePhrases == GuideActivation \cup GuideDeactivation

\* the LLM answers what reaches it
GuideResponse(text) ==
  IF isTranslateModeCommand(text) \/ isNormalModeCommand(text)
  THEN <<>> ELSE WeatherResponse

NextGuide ==
  \/ ButtonPress
  \/ ButtonRelease
  \/ \E r \in {i \in 1..Len(asrRaces) : asrRaces[i].asrPending} :
       \E text \in GuidePhrases : AsrResult(r, text, GuideResponse(text))
  \/ ConfirmTimer
  \/ \E g \in 1..Len(streams) : StreamPartial(g)
  \/ \E g \in 1..Len(streams) : StreamEnd(g)
  \/ \E t \in 1..Len(tts) : TtsSettle(t, "ok")
  \/ \E p \in 1..Len(pumps) : PlayDone(p)
  \/ \E p \in 1..Len(pumps) : PumpRetry(p)

SpecGuide == Init /\ [][NextGuide]_vars

\* ------------------------------------------------------------------------
\* The StreamResponser driven directly through its public operations, in
\* any order, by a caller other than ChatFlow
\* ------------------------------------------------------------------------
ClientFragments == { <<"H","i",".">>, <<"n","o">>, <<"!","\n","g","o">> }

\* the client has made one more call and has seen what the call called:
\* its callbacks and the synthesis function it handed to the constructor
ClientCalled(isStop, w) ==
  /\ Commit(w)
  /\ client' = [calls |-> client.calls + 1,
                stops |-> IF isStop THEN client.stops + 1 ELSE 0,
                trace |-> w.trace]
  /\ UNCHANGED <<seg, llm, tr>>

ClientPartial(text, id) ==
  /\ client.calls < MaxClientCalls
  /\ ClientCalled(FALSE, Drain(partial(W, text, id)))

ClientEndPartial(id) ==
  /\ client.calls < MaxClientCalls
  /\ ClientCalled(FALSE, Drain(endPartial(W, id)))

ClientGetPlayEndPromise ==
  /\ client.calls < MaxClientCalls
  /\ ClientCalled(FALSE, Drain(getPlayEndPromise(W, "client")))

ClientStop ==
  /\ client.calls < MaxClientCalls
  /\ ClientCalled(TRUE, Drain(stop(W)))

\* a promise settles or a timer fires between two calls of the client
ClientWaits ==
  /\ client' = [client EXCEPT !.stops = 0, !.trace = <<>>]
  /\ UNCHANGED <<seg, llm, tr>>

ClientTtsSettle(t, result) ==
  /\ tts[t].st = "pending"
  /\ Commit(Drain(ttsSettled(W, t, result)))
  /\ ClientWaits

ClientPlayDone(p) ==
  /\ pumps[p].pc = "playing"
  /\ Commit(Drain(playSettled(W, p)))
  /\ ClientWaits

ClientPumpRetry(p) ==
  /\ pumps[p].pc = "delay"
  /\ Commit(Drain(playNext(W, p)))
  /\ ClientWaits

NextSR ==
  \/ \E text \in ClientFragments, id \in 1..MaxGen : ClientPartial(text, id)
  \/ \E id \in 1..MaxGen : ClientEndPartial(id)
  \/ ClientGetPlayEndPromise
  \/ ClientStop
  \/ \E t \in 1..Len(tts), result \in ClientTtsResults : ClientTtsSettle(t, result)
  \/ \E p \in 1..Len(pumps) : ClientPlayDone(p)
  \/ \E p \in 1..Len(pumps) : ClientPumpRetry(p)

SpecSR == Init /\ [][NextSR]_vars

\* ------------------------------------------------------------------------
\* splitSentences fed a text in consecutive chunks, the way partial() feeds
\* it: the remainder of one call is prepended to the next chunk, and the
\* last remainder is flushed as endPartial() flushes it
\* ------------------------------------------------------------------------
SegAlphabet == {"a", "1", ".", " "}

SegTexts == UNION {[1..n -> SegAlphabet] : n \in 1..MaxTextLen}

flushRemainder(sentences, remainder) ==
  IF remainder # <<>> THEN Append(sentences, remainder) ELSE sentences

CoreUnchanged ==
  UNCHANGED <<currentFlowName, answerId, translateMode, asrText,
              partialThinking, hasAnswerStarted, currentRecordFilePath,
              pressHandler, releaseHandler,
              display, latestGenImg, partialContent, fullResponse,
              parsedSentences, srAnswerId, isStartSpeak, speakArray,
              playEndResolve, tts, pumps, handles, playerIsPlaying, streams,
              asrRaces, confirmTimers, nListen, interrupted, client, llm, tr>>

InitSeg ==
  /\ InitCore
  /\ seg \in {[text |-> t, fed |-> 0, remainder |-> <<>>, sentences |-> <<>>,
               phase |-> "feeding"] : t \in SegTexts}
  /\ llm = LlmIdle
  /\ tr = TrIdle

\* the next k characters arrive as one chunk
SegFeed(k) ==
  /\ seg.phase = "feeding"
  /\ seg.fed + k <= Len(seg.text)
  /\ LET chunk == SubSeq(seg.text, seg.fed + 1, seg.fed + k)
         r == splitSentences(seg.remainder \o chunk)
     IN seg' = [seg EXCEPT !.fed = @ + k,
                           !.remainder = r.remaining,
                           !.sentences = @ \o r.sentences]
  /\ CoreUnchanged

\* the stream ends
SegFlush ==
  /\ seg.phase = "feeding"
  /\ seg.fed = Len(seg.text)
  /\ seg' = [seg EXCEPT !.phase = "flushed",
                        !.remainder = <<>>,
                        !.sentences = flushRemainder(@, seg.remainder)]
  /\ CoreUnchanged

NextSeg ==
  \/ \E k \in 1..MaxTextLen : SegFeed(k)
  \/ SegFlush

SpecSeg == InitSeg /\ [][NextSeg]_vars

\* ------------------------------------------------------------------------
\* One call of splitSentences on a text of up to MaxCandidates sentences
\* whose lengths lie around the merge budget and around half of it
\* ------------------------------------------------------------------------
CandidateLengths ==
  {2, MergeBudget \div 2 - 1, MergeBudget \div 2, MergeBudget - 1, MergeBudget}

\* a sentence of n characters: letters and a final full stop
Candidate(n) == [i \in 1..n |-> IF i = n THEN "." ELSE "a"]

MergeTexts ==
  {Join([i \in DOMAIN ls |-> Candidate(ls[i])], <<" ">>) :
     ls \in UNION {[1..n -> CandidateLengths] : n \in 1..MaxCandidates}}

InitMerge ==
  /\ InitCore
  /\ seg \in {[text |-> t, fed |-> 0, remainder |-> <<>>, sentences |-> <<>>,
               phase |-> "feeding"] : t \in MergeTexts}
  /\ llm = LlmIdle
  /\ tr = TrIdle

\* the whole text arrives as one fragment
MergeCall ==
  /\ seg.phase = "feeding"
  /\ LET r == splitSentences(seg.text)
     IN seg' = [seg EXCEPT !.fed = Len(seg.text),
                           !.remainder = r.remaining,
                           !.sentences = r.sentences,
                           !.phase = "merged"]
  /\ CoreUnchanged

NextMerge == MergeCall

SpecMerge == InitMerge /\ [][NextMerge]_vars

\* ------------------------------------------------------------------------
\* One top-level call of chatWithLLMStream, for the OpenAI client and for
\* the Ollama client.  llm.depth is the number of tool-call rounds the call
\* has recursed into; llm.partials and llm.ends count what the caller's
\* partialCallback and endCallback have seen, llm.late records a partial
\* delivered after the stream end.
\* ------------------------------------------------------------------------
Providers == {"openai", "ollama"}

LlmFinished == {"returned", "rejected"}

\* partialCallback(content)
partialCallback(l) ==
  [l EXCEPT !.partials = @ + 1, !.late = @ \/ (l.ends > 0)]

\* endCallback(): at depth d the callback is the chain of d wrappers
\* () => { endResolve(); endCallback(); } around the caller's endCallback
endCallback(l) == [l EXCEPT !.ends = @ + 1]

\* the body of chatWithLLMStream up to its first await
chatWithLLMStream(l) ==
  IF l.provider = "openai" /\ ~l.hasClient
  THEN [l EXCEPT !.pc = "returned"]
  ELSE [l EXCEPT !.pc = "request", !.chunks = 0, !.toolCalls = FALSE]

\* the request fails: openai.chat.completions.create rejects and the async
\* function rejects with it; axios.post rejects into the catch block
requestFails(l) ==
  IF l.provider = "openai"
  THEN [l EXCEPT !.pc = "rejected"]
  ELSE [endCallback(l) EXCEPT !.pc = "returned"]

\* the stream is exhausted: recurse after the tool calls, or end the stream
streamDone(l) ==
  IF l.toolCalls
  THEN [l EXCEPT !.pc = "tools"]
  ELSE [endCallback(l) EXCEPT !.pc = "returned"]

\* the for-await loop over the response throws: the async function rejects
streamFails(l) == [l EXCEPT !.pc = "rejected"]

\* fs.writeFileSync in the .finally of the returned promise throws after
\* endResolve() and endCallback(): the returned promise rejects
historyWriteFails(l) == [l EXCEPT !.pc = "rejected"]

LlmUnchanged ==
  UNCHANGED <<currentFlowName, answerId, translateMode, asrText,
              partialThinking, hasAnswerStarted, currentRecordFilePath,
              pressHandler, releaseHandler,
              display, latestGenImg, partialContent, fullResponse,
              parsedSentences, srAnswerId, isStartSpeak, speakArray,
              playEndResolve, tts, pumps, handles, playerIsPlaying, streams,
              asrRaces, confirmTimers, nListen, interrupted, seg, client, tr>>

\* the caller calls chatWithLLMStream(messages, partial, end, thinking)
LlmCall(provider, hasClient) ==
  /\ llm.pc = "idle"
  /\ llm' = chatWithLLMStream([llm EXCEPT !.provider = provider,
                                          !.hasClient = hasClient])
  /\ LlmUnchanged

\* the request is answered and the response starts streaming
LlmRequestOk ==
  /\ llm.pc = "request"
  /\ llm' = [llm EXCEPT !.pc = "streaming"]
  /\ LlmUnchanged

LlmRequestFails ==
  /\ llm.pc = "request"
  /\ llm' = requestFails(llm)
  /\ LlmUnchanged

\* a chunk with content arrives
LlmContentChunk ==
  /\ llm.pc = "streaming"
  /\ llm.chunks < MaxChunks
  /\ llm' = [partialCallback(llm) EXCEPT !.chunks = @ + 1]
  /\ LlmUnchanged

\* a chunk with tool calls arrives
LlmToolChunk ==
  /\ llm.pc = "streaming"
  /\ llm.chunks < MaxChunks
  /\ llm.depth < MaxRounds
  /\ llm' = [llm EXCEPT !.chunks = @ + 1, !.toolCalls = TRUE]
  /\ LlmUnchanged

\* the for-await loop ends / the "end" event of the response is emitted
LlmStreamDone ==
  /\ llm.pc = "streaming"
  /\ llm' = streamDone(llm)
  /\ LlmUnchanged

\* the stream of the OpenAI client breaks off
LlmStreamFails ==
  /\ llm.pc = "streaming"
  /\ llm.provider = "openai"
  /\ llm' = streamFails(llm)
  /\ LlmUnchanged

\* the stream ends without tool calls and the chat history cannot be written
LlmHistoryWriteFails ==
  /\ llm.pc = "streaming"
  /\ ~llm.toolCalls
  /\ llm' = historyWriteFails(streamDone(llm))
  /\ LlmUnchanged

\* the called functions have returned: the recursive call with their results
LlmToolsDone ==
  /\ llm.pc = "tools"
  /\ llm' = chatWithLLMStream([llm EXCEPT !.depth = @ + 1])
  /\ LlmUnchanged

NextLLM ==
  \/ \E provider \in Providers, hasClient \in BOOLEAN :
       LlmCall(provider, hasClient)
  \/ LlmRequestOk
  \/ LlmRequestFails
  \/ LlmContentChunk
  \/ LlmToolChunk
  \/ LlmStreamDone
  \/ LlmToolsDone
  \/ LlmStreamFails
  \/ LlmHistoryWriteFails

SpecLLM == Init /\ [][NextLLM]_vars

\* ------------------------------------------------------------------------
\* One call of translateWithDiarization(audioFilePath, onPartial, onEnd,
\* onThinking) with the OpenAI client as chatWithLLMStream.  onPartial and
\* onEnd are the callbacks llm.partials, llm.ends and llm.late observe;
\* tr.said is the fixed text the function itself has emitted, tr.sent the
\* system prompt of the request, tr.env the value of SYSTEM_PROMPT.
\* ------------------------------------------------------------------------
NoSpeechText == "No speech detected in the audio."

FallbackText == "Translation failed. Please try again."

\* values of process.env.SYSTEM_PROMPT: not set, set to the empty string,
\* set to a prompt of the user
EnvValues == {"unset", "", "custom"}

\* config/llm-config: systemPrompt = process.env.SYSTEM_PROMPT || built-in
systemPrompt(env) == IF env \in {"unset", ""} THEN "default" ELSE env

\* the catch block of translateWithDiarization
translateCatch(t) == [t EXCEPT !.said = FallbackText, !.pc = "done"]

\* the finally block: restore SYSTEM_PROMPT, or delete it when the saved
\* value is undefined or the empty string
restorePrompt(t) ==
  [t EXCEPT !.env = IF t.original \in {"unset", ""} THEN "unset"
                    ELSE t.original]

TrUnchanged ==
  UNCHANGED <<currentFlowName, answerId, translateMode, asrText,
              partialThinking, hasAnswerStarted, currentRecordFilePath,
              pressHandler, releaseHandler,
              display, latestGenImg, partialContent, fullResponse,
              parsedSentences, srAnswerId, isStartSpeak, speakArray,
              playEndResolve, tts, pumps, handles, playerIsPlaying, streams,
              asrRaces, confirmTimers, nListen, interrupted, seg, client>>

InitTranslate ==
  /\ InitCore
  /\ seg = SegIdle
  /\ llm = LlmIdle
  /\ tr \in {[TrIdle EXCEPT !.env = e, !.loaded = systemPrompt(e)] :
               e \in EnvValues}

\* the call, up to "await diarizeAudio(audioFilePath)"
TrCall ==
  /\ tr.pc = "idle"
  /\ tr' = [tr EXCEPT !.pc = "diarizing"]
  /\ UNCHANGED llm
  /\ TrUnchanged

\* diarizeAudio rejects, or the temporary directory cannot be created or
\* removed
TrDiarizeFails ==
  /\ tr.pc = "diarizing"
  /\ tr' = translateCatch(tr)
  /\ llm' = endCallback(partialCallback(llm))
  /\ TrUnchanged

\* the segments are processed and n of them give a text; with n > 0 the
\* function overrides SYSTEM_PROMPT and calls chatWithLLMStream
TrTranscribed(n, hasClient) ==
  /\ tr.pc = "diarizing"
  /\ IF n = 0
     THEN /\ tr' = [tr EXCEPT !.said = NoSpeechText, !.pc = "done"]
          /\ llm' = endCallback(partialCallback(llm))
     ELSE /\ llm' = chatWithLLMStream([llm EXCEPT !.provider = "openai",
                                                  !.hasClient = hasClient])
          /\ tr' = [tr EXCEPT !.original = tr.env,
                              !.env = "translate",
                              !.sent = IF llm'.pc = "request" THEN tr.loaded
                                       ELSE "none",
                              !.pc = "llm"]
  /\ TrUnchanged

\* "await chatWithLLMStream(...)" settles: the finally block, and the catch
\* block when the call has rejected
TrLlmSettled ==
  /\ tr.pc = "llm"
  /\ llm.pc \in LlmFinished
  /\ IF llm.pc = "rejected"
     THEN /\ tr' = translateCatch(restorePrompt(tr))
          /\ llm' = endCallback(partialCallback(llm))
     ELSE /\ tr' = [restorePrompt(tr) EXCEPT !.pc = "done"]
          /\ UNCHANGED llm
  /\ TrUnchanged

\* the call and the steps of the LLM call it makes
NextTranslate ==
  \/ TrCall
  \/ TrDiarizeFails
  \/ \E n \in 0..1, hasClient \in BOOLEAN : TrTranscribed(n, hasClient)
  \/ TrLlmSettled
  \/ LlmRequestOk
  \/ LlmRequestFails
  \/ LlmContentChunk
  \/ LlmToolChunk
  \/ LlmStreamDone
  \/ LlmToolsDone
  \/ LlmStreamFails
  \/ LlmHistoryWriteFails

SpecTranslate == InitTranslate /\ [][NextTranslate]_vars

\* ------------------------------------------------------------------------
\* Properties
\* ------------------------------------------------------------------------
\* what a caller of the StreamResponser can observe of it
Observable ==
  <<partialContent, parsedSentences, fullResponse, speakArray, tts, pumps,
    display, partialThinking>>

\* a callback of generation g is delivered
Delivered(g) == StreamPartial(g) \/ StreamEnd(g) \/ StreamThinking(g)

\* C1: a partial, endPartial or thinking callback tagged g1 that is delivered
\* after the controller has advanced its generation counter beyond g1 changes
\* neither the remainder, the completed sentences, the accumulated text, the
\* playback queue nor the display, and starts no synthesis and no playback.
C1_StaleCallbackIsNoOp ==
  [][\A g \in 1..MaxGen :
       (g <= Len(streams) /\ g < answerId /\ Delivered(g))
         => UNCHANGED Observable]_vars

\* the buffers and the queue of the StreamResponser
Buffers ==
  <<partialContent, parsedSentences, fullResponse, speakArray, tts, pumps>>

\* C2: once a button press has interrupted generation g, a partial(text, g)
\* or endPartial(g) delivered while the controller is in Listening,
\* Recognizing or Idle changes nothing in the orchestrator, and no synthesis is
\* ever requested and no playback ever started for g after the interrupt.
C2_InterruptedGenerationIsDead ==
  /\ [](\A t \in 1..Len(tts) : ~tts[t].late /\ ~tts[t].playLate)
  /\ [][\A g \in 1..MaxGen :
          (/\ g <= Len(streams)
           /\ g \in interrupted
           /\ currentFlowName \in {"listening", "asr", "sleep"}
           /\ (StreamPartial(g) \/ StreamEnd(g)))
            => UNCHANGED Buffers]_vars

PlaysInProgress == {p \in 1..Len(pumps) : pumps[p].pc = "playing"}

\* C3: at most one playAudio call is in progress at any time.
C3_SinglePlayback == Cardinality(PlaysInProgress) <= 1

\* the stream of generation g has ended and every audio synthesized for g has
\* been handed to the player and is no longer being played or awaited
TurnOver(g) ==
  /\ streams[g].st = "ended"
  /\ \A t \in 1..Len(tts) :
       tts[t].gen = g =>
         /\ tts[t].st = "settled"
         /\ tts[t].nPlay >= 1
         /\ \A p \in 1..Len(pumps) : pumps[p].entry # t

\* C4: unless stop() resolved it, the playback-ended handle of generation g is
\* resolved only after endPartial(g) has been processed and the audio queued
\* for g has finished playing.
C4_PlayEndOnlyAfterTurn ==
  \A h \in 1..Len(handles) :
    (handles[h].resolved /\ handles[h].by = "pump") => TurnOver(handles[h].gen)

RECURSIVE Concat(_)
Concat(ss) == IF ss = <<>> THEN <<>> ELSE Head(ss) \o Concat(Tail(ss))

\* nothing is in flight any more: every stream has ended, every synthesis has
\* settled, no pump loop is left, no recognition and no timer is pending
Quiescent ==
  /\ \A g \in 1..Len(streams) : streams[g].st = "ended"
  /\ \A t \in 1..Len(tts) : tts[t].st = "settled"
  /\ pumps = <<>>
  /\ \A r \in 1..Len(asrRaces) : ~asrRaces[r].asrPending
  /\ confirmTimers = 0

\* generation g was interrupted by a press, g + 1 is the generation after it,
\* its stream has ended with text to speak, and no button was pressed since
\* g + 1 started
TurnAfterCancel(g) ==
  /\ g \in interrupted
  /\ answerId = g + 1
  /\ (g + 1) \notin interrupted
  /\ streams[g + 1].st = "ended"
  /\ purifyTextForTTS(Concat(streams[g + 1].resp)) # <<>>
  /\ nListen = streams[g + 1].listens

\* C5: the turn after a cancelled one completes: once everything in flight has
\* settled, its audio has been synthesized and played, its playback-ended
\* handle is resolved and the controller has left Answering.
C5_TurnAfterCancelCompletes ==
  \A g \in 1..(MaxGen - 1) :
    (Quiescent /\ TurnAfterCancel(g)) =>
      /\ \E t \in 1..Len(tts) : tts[t].gen = g + 1 /\ tts[t].nPlay >= 1
      /\ \E h \in 1..Len(handles) : handles[h].gen = g + 1 /\ handles[h].resolved
      /\ (currentFlowName = "sleep" \/ pressHandler.kind = "imageToListening")

SynthesesOf(g) == {t \in 1..Len(tts) : tts[t].gen = g}

\* generation g is the controller's current generation, no press interrupted
\* it, and its stream delivers at least one fragment and text to speak
UninterruptedTurn(g) ==
  /\ g = answerId
  /\ g \notin interrupted
  /\ Len(streams[g].resp) >= 1
  /\ purifyTextForTTS(Concat(streams[g].resp)) # <<>>

\* C6: for such a generation synthesize() is called exactly once, at
\* endPartial and never during partial(), with the sanitized concatenation of
\* the fragments, and playAudio() is called exactly once.
C6_OneSynthesisOnePlayback ==
  \A g \in 1..Len(streams) :
    UninterruptedTurn(g) =>
      /\ streams[g].st = "active" => SynthesesOf(g) = {}
      /\ streams[g].st = "ended" =>
           /\ Cardinality(SynthesesOf(g)) = 1
           /\ \A t \in SynthesesOf(g) :
                /\ tts[t].text = purifyTextForTTS(Concat(streams[g].resp))
                /\ tts[t].nPlay <= 1
                /\ Quiescent => tts[t].nPlay = 1

WeatherSentence ==
  <<"T","h","e"," ","w","e","a","t","h","e","r"," ","i","s"," ","s","u","n","n","y"," ","t","o","d","a","y","."," ">>

\* C7: after the fragments "The ", "weather is ", "sunny today." and the
\* stream end of the first generation, the sentences shown are the single
\* chunk "The weather is sunny today. ".
C7_WeatherSentenceShown ==
  (/\ answerId = 1
   /\ currentFlowName = "answer"
   /\ streams[1].resp = WeatherResponse
   /\ streams[1].st = "ended")
    => display.text = WeatherSentence

\* one splitSentences call on the whole text, followed by the flush
WholeTextSentences(text) ==
  flushRemainder(splitSentences(text).sentences, splitSentences(text).remaining)

\* C8: feeding a text in chunks and flushing the last remainder gives the
\* same sentences as segmenting the whole text at once.
C8_ChunkInvariance ==
  seg.phase = "flushed" => seg.sentences = WholeTextSentences(seg.text)

\* the state of the StreamResponser and of the player
Orchestrator ==
  <<partialContent, fullResponse, parsedSentences, srAnswerId, isStartSpeak,
    speakArray, playEndResolve, handles, tts, pumps, playerIsPlaying>>

\* C9: stop() can always be called; after every call the playback queue, the
\* remainder, the completed sentences and the accumulated text are empty, the
\* pump is marked idle and the outstanding playback-ended handle is resolved;
\* a handle once resolved stays resolved by the same resolver; and a stop()
\* that directly follows a stop() changes nothing in the orchestrator.
C9_StopIdempotentAndTotal ==
  /\ [](client.calls < MaxClientCalls => ENABLED ClientStop)
  /\ [][ClientStop =>
          /\ speakArray' = <<>>
          /\ partialContent' = <<>>
          /\ parsedSentences' = <<>>
          /\ fullResponse' = <<>>
          /\ ~isStartSpeak'
          /\ ~playerIsPlaying'
          /\ playEndResolve # 0 => handles'[playEndResolve].resolved]_vars
  /\ [][\A h \in 1..Len(handles) :
          handles[h].resolved => handles'[h] = handles[h]]_vars
  /\ [][(ClientStop /\ client.stops >= 1) => UNCHANGED Orchestrator]_vars

\* stop() was called twice in a row while a handle was outstanding, and the
\* handle was resolved by it
C9_Witness ==
  /\ client.stops >= 2
  /\ playEndResolve # 0
  /\ handles[playEndResolve].resolved
  /\ handles[playEndResolve].by = "stop"

\* the activation and deactivation phrases of the voice-command surface
ActivationPhrases ==
  { <<"t","r","a","n","s","l","a","t","e"," ","m","o","d","e">>,
    <<"t","r","a","n","s","l","a","t","i","o","n"," ","m","o","d","e">>,
    <<"a","c","t","i","v","a","t","e"," ","t","r","a","n","s","l","a","t","e"," ","m","o","d","e">>,
    <<"e","n","a","b","l","e"," ","t","r","a","n","s","l","a","t","e"," ","m","o","d","e">>,
    <<"t","u","r","n"," ","o","n"," ","t","r","a","n","s","l","a","t","e"," ","m","o","d","e">> }

DeactivationPhrases ==
  { <<"n","o","r","m","a","l"," ","m","o","d","e">>,
    <<"c","h","a","t"," ","m","o","d","e">>,
    <<"d","i","s","a","b","l","e"," ","t","r","a","n","s","l","a","t","e"," ","m","o","d","e">>,
    <<"d","e","a","c","t","i","v","a","t","e"," ","t","r","a","n","s","l","a","t","e"," ","m","o","d","e">>,
    <<"t","u","r","n"," ","o","f","f"," ","t","r","a","n","s","l","a","t","e"," ","m","o","d","e">> }

\* text is the phrase up to letter case and surrounding whitespace
SaysPhrase(text, phrase) ==
  \E i \in 1..Len(text) :
    /\ i + Len(phrase) - 1 <= Len(text)
    /\ ToLowerCase(SubSeq(text, i, i + Len(phrase) - 1)) = phrase
    /\ \A k \in 1..Len(text) :
         (k < i \/ k > i + Len(phrase) - 1) => text[k] \in Whitespace

ActivatingTexts ==
  {text \in AsrTexts : \E phrase \in ActivationPhrases : SaysPhrase(text, phrase)}

DeactivatingTexts ==
  {text \in AsrTexts : \E phrase \in DeactivationPhrases : SaysPhrase(text, phrase)}

ModeAfter(text, mode) ==
  IF text \in ActivatingTexts THEN TRUE
  ELSE IF text \in DeactivatingTexts THEN FALSE
  ELSE mode

\* the recognition of race r returns text before any press has settled the race
Recognized(r, text) ==
  /\ asrRaces[r].asrPending
  /\ ~asrRaces[r].settled
  /\ ~asrRaces'[r].asrPending
  /\ \E resp \in (IF text \in AnswerTexts THEN Responses ELSE {<<>>}) :
       AsrResult(r, text, resp)

\* the mode flag after a step is the one the recognition of text calls for
ModeFollows(text) ==
  /\ translateMode' = ModeAfter(text, translateMode)
  /\ text = <<"t","r","a","n","s","l","a","t","e"," ","m","o","d","e">> => translateMode'
  /\ text \in {<<"T","r","a","n","s","l","a","t","e"," ","M","o","d","e","!">>,
               <<"p","l","e","a","s","e"," ","t","r","a","n","s","l","a","t","e"," ","m","o","d","e"," ","n","o","w"," ","p","l","e","a","s","e">>}
       => translateMode' = translateMode

SpokenCommands == SpokenTexts \cap (ActivatingTexts \cup DeactivatingTexts)

\* the races whose state a step changes
ChangedRaces == {i \in 1..Len(asrRaces) : asrRaces'[i] # asrRaces[i]}

\* a step that only confirms a command: no turn is started, nothing is
\* synthesized, the phase stays Recognizing and the confirmation delay runs
CommandConfirmed ==
  /\ answerId' = answerId
  /\ streams' = streams
  /\ tts' = tts
  /\ nListen' = nListen
  /\ currentFlowName' = "asr"
  /\ confirmTimers' = confirmTimers + 1

\* C11: a recognition result that is an activation or deactivation phrase
\* starts no turn (generation counter unchanged, no LLM stream, no synthesis),
\* the phase stays Recognizing during the confirmation delay whatever the
\* button does, no recording is started in the delay, and the end of the
\* delay puts the controller in Idle.
C11_CommandNeverAnswers ==
  /\ [](confirmTimers > 0 => currentFlowName = "asr")
  /\ [][\A r \in ChangedRaces : \A text \in SpokenCommands :
           CommandConfirmed \/ ~Recognized(r, text)]_vars
  /\ [][(confirmTimers > 0 /\ confirmTimers' = confirmTimers) =>
           /\ currentFlowName' = currentFlowName
           /\ nListen' = nListen
           /\ answerId' = answerId
           /\ Len(streams') = Len(streams)]_vars
  /\ [][confirmTimers' < confirmTimers =>
           /\ currentFlowName' = "sleep"
           /\ answerId' = answerId
           /\ Len(streams') = Len(streams)]_vars

\* the activation command was confirmed and the delay has ended: the
\* controller is idle, in translate mode, and no turn was ever started
C11_Witness ==
  /\ currentFlowName = "sleep"
  /\ translateMode
  /\ confirmTimers = 0
  /\ answerId = 0
  /\ streams = <<>>
  /\ display.text = <<"Translate Mode Active\nPress to record conversation">>

\* C12: the mode flag changes only in the step in which the Recognizing
\* handler receives a command phrase; every other step (phase transition,
\* button press, stop(), interrupt, playback end, empty or non-command
\* recognition result, stream callback) leaves it as it was.
C12_ModePersists ==
  [][\/ translateMode' = translateMode
     \/ /\ currentFlowName = "asr"
        /\ \E r \in ChangedRaces : \E text \in SpokenCommands :
             Recognized(r, text)]_vars

\* translate mode was switched on, then a whole turn was answered, played to
\* its end and the controller went back to Idle: the flag is still set
C12_Witness ==
  /\ translateMode
  /\ currentFlowName = "sleep"
  /\ answerId = 1
  /\ Len(handles) = 1
  /\ handles[1].resolved
  /\ handles[1].by = "pump"

\* the spoken recognition results that are a sentence and no command
SpokenSentences == (SpokenTexts \ SpokenCommands) \ {<<>>}

\* C13: a non-empty recognition result that is no command phrase puts the
\* controller in Answering when the mode is Normal and in Translating when
\* the mode is Translate.
C13_RoutesByMode ==
  [][\A r \in ChangedRaces : \A text \in SpokenSentences :
       Recognized(r, text) =>
         currentFlowName' = IF translateMode THEN "translate" ELSE "answer"]_vars

\* a step from Recognizing to Idle that starts nothing: no LLM stream, no
\* synthesis, no playback, generation counter and mode flag as before
EmptyHandled ==
  /\ currentFlowName = "asr"
  /\ currentFlowName' = "sleep"
  /\ answerId' = answerId
  /\ translateMode' = translateMode
  /\ streams' = streams
  /\ tts' = tts
  /\ pumps' = pumps
  /\ playerIsPlaying' = playerIsPlaying

\* C14: an empty recognition result takes the controller from Recognizing
\* to Idle in one step, with no LLM call, no synthesize call and no playAudio
\* call, and with the generation counter and the mode flag unchanged.
C14_EmptyResultGoesIdle ==
  [][\A r \in ChangedRaces : EmptyHandled \/ ~Recognized(r, <<>>)]_vars

\* the first recording was recognized as silence: the controller is idle
\* again with the idle prompt, and no turn was started
C14_Witness ==
  /\ currentFlowName = "sleep"
  /\ nListen = 1
  /\ Len(asrRaces) = 1
  /\ ~asrRaces[1].asrPending
  /\ answerId = 0
  /\ streams = <<>>
  /\ tts = <<>>
  /\ display.text = <<"Press the button to start">>

\* the state right after the turn of generation answerId was cancelled: the
\* controller records a new utterance, the playback queue and the buffers
\* are empty, the player is not marked playing, and the playback-ended
\* handle of the turn is resolved with its continuation already run
Cancelled ==
  /\ currentFlowName' = "listening"
  /\ releaseHandler' = "stopRecording"
  /\ nListen' = nListen + 1
  /\ speakArray' = <<>>
  /\ partialContent' = <<>>
  /\ parsedSentences' = <<>>
  /\ fullResponse' = <<>>
  /\ ~isStartSpeak'
  /\ ~playerIsPlaying'
  /\ answerId \in interrupted'
  /\ handles'[playEndResolve].resolved
  /\ display'.image = display.image

\* C15: in Answering the press handler is the cancelling one at every
\* moment; a button press there calls stop() and enters Listening within the
\* same step, leaving the queue and the buffers empty and the player
\* stopped; the playback-ended continuation of the cancelled turn has run
\* without moving the controller, which leaves Listening only for
\* Recognizing.
C15_PressCancelsAnswering ==
  /\ [](currentFlowName = "answer" => pressHandler.kind = "stopToListening")
  /\ [][\/ currentFlowName # "answer"
        \/ Cancelled
        \/ (currentFlowName' # "listening" /\ ~ButtonPress)]_vars
  /\ [][currentFlowName = "listening" =>
          currentFlowName' \in {"listening", "asr"}]_vars

\* the first turn was cancelled during playback: the controller is
\* listening while the cut-off playAudioData call has not returned yet
C15_Witness ==
  /\ currentFlowName = "listening"
  /\ interrupted = {1}
  /\ Len(tts) = 1
  /\ tts[1].nPlay = 1
  /\ PlaysInProgress # {}
  /\ speakArray = <<>>
  /\ ~playerIsPlaying

\* the playback-ended handle of the current turn is resolved by the end of
\* the playback, not by stop()
PlaybackEnded ==
  /\ currentFlowName = "answer"
  /\ pressHandler.kind = "stopToListening"
  /\ playEndResolve # 0
  /\ ~handles[playEndResolve].resolved
  /\ handles'[playEndResolve].resolved
  /\ handles'[playEndResolve].by = "pump"

\* C16: when the playback-ended signal arrives in Answering the phase
\* becomes ImageShowing if a generated image is available and Idle
\* otherwise; while the image is shown the recorded phase is ImageShowing,
\* not Answering, and a button press clears the image and enters Listening.
C16_PlaybackEndRoutes ==
  /\ [](pressHandler.kind = "imageToListening" => currentFlowName = "image")
  /\ [][PlaybackEnded =>
          IF latestGenImg
          THEN /\ currentFlowName' = "image"
               /\ display'.image
               /\ pressHandler'.kind = "imageToListening"
          ELSE currentFlowName' = "sleep"]_vars
  /\ [][(pressHandler.kind = "imageToListening" /\ nListen' # nListen) =>
          /\ currentFlowName' = "listening"
          /\ ~display'.image]_vars

\* the state of the controller, the orchestrator and the work in flight
ProgramState ==
  <<currentFlowName, answerId, translateMode, asrText, partialThinking,
    hasAnswerStarted, currentRecordFilePath, pressHandler, releaseHandler,
    display, latestGenImg, partialContent, fullResponse, parsedSentences,
    srAnswerId, isStartSpeak, speakArray, playEndResolve, tts, pumps, handles,
    playerIsPlaying, streams, asrRaces, confirmTimers, nListen, interrupted>>

\* C17: a request for an unrecognized phase name changes nothing: phase,
\* button handlers, generation counter, mode flag, orchestrator state and the
\* work in flight are as before, and the machine goes on from there.
C17_UnknownFlowChangesNothing ==
  [][client'.calls # client.calls => UNCHANGED ProgramState]_vars

\* an unknown phase was requested, and the controller later cancelled a turn
\* and is recording the next utterance
C17_Witness ==
  /\ client.calls = 1
  /\ currentFlowName = "listening"
  /\ interrupted = {1}
  /\ nListen = 2

\* C18: the generation counter never decreases; every entry into Answering
\* (a new LLM stream is started) increments it by exactly one, and no other
\* step changes it, so it always equals the number of entries so far.
C18_CounterCountsEntries ==
  /\ [](answerId = Len(streams))
  /\ [][\/ answerId' = answerId
        \/ /\ answerId' = answerId + 1
           /\ currentFlowName' = "answer"
           /\ Len(streams') = Len(streams) + 1]_vars
  /\ [][Len(streams') # Len(streams) => answerId' = answerId + 1]_vars

\* the second turn is being answered after the first one was cancelled
C18_Witness ==
  /\ answerId = 2
  /\ currentFlowName = "answer"
  /\ interrupted = {1}
  /\ streams[1].st = "active"

\* the press handler installed is the one of the recorded phase
HandlerOfPhase ==
  /\ currentFlowName = "sleep" => pressHandler.kind = "toListening"
  /\ currentFlowName = "listening" => pressHandler.kind = "noop"
  /\ currentFlowName = "asr" =>
       (pressHandler.kind = "asrResolve" /\ pressHandler.race = Len(asrRaces))
  /\ currentFlowName = "answer" => pressHandler.kind = "stopToListening"

\* the press settles race r before its recognition result has arrived
PressWins(r) ==
  /\ ~asrRaces[r].settled
  /\ asrRaces'[r].settled
  /\ asrRaces'[r].asrPending

\* the recognition result of race r arrives after the press has settled it
LateResult(r) ==
  /\ asrRaces[r].settled
  /\ asrRaces[r].asrPending
  /\ ~asrRaces'[r].asrPending

\* C19: in Recognizing the first of {recognition result, button press}
\* decides.  If the press is first the controller enters Listening, and the
\* result of that recording, whenever it arrives (also in a later
\* Recognizing phase), changes neither the phase nor the mode, starts no LLM
\* stream and leaves handlers, display and timers alone.  If the result is
\* first, the press handler in force afterwards is the one of the phase the
\* controller is then in.
C19_FirstSettlerWins ==
  /\ []HandlerOfPhase
  /\ [][\A r \in ChangedRaces :
          /\ PressWins(r) =>
               /\ currentFlowName = "asr"
               /\ currentFlowName' = "listening"
               /\ translateMode' = translateMode
               /\ answerId' = answerId
               /\ streams' = streams
          /\ LateResult(r) =>
               /\ currentFlowName' = currentFlowName
               /\ translateMode' = translateMode
               /\ answerId' = answerId
               /\ streams' = streams
               /\ pressHandler' = pressHandler
               /\ releaseHandler' = releaseHandler
               /\ display' = display
               /\ asrText' = asrText
               /\ confirmTimers' = confirmTimers
               /\ nListen' = nListen]_vars

\* the press won the first race, and the controller is recognizing the next
\* recording while the result of the first one is still outstanding
C19_Witness ==
  /\ Len(asrRaces) = 2
  /\ asrRaces[1].settled
  /\ asrRaces[1].asrPending
  /\ ~asrRaces[2].settled
  /\ currentFlowName = "asr"

\* the stream of the current generation g has delivered its stream end and
\* the controller is answering
StreamEnded(g) ==
  /\ answerId = g
  /\ currentFlowName = "answer"
  /\ g <= Len(streams)
  /\ streams[g].st = "ended"

\* the turn of generation g is over: the controller is idle or shows the
\* generated image, or a button press has cancelled the turn
TurnIsOver(g) ==
  \/ currentFlowName = "sleep"
  \/ pressHandler.kind = "imageToListening"
  \/ g \in interrupted

\* C20: every turn completes: once the stream of the current generation has
\* delivered its stream end while the controller is in Answering, then with
\* no further button press the controller eventually reaches Idle or
\* ImageShowing, whatever the response was (also an empty one, or one whose
\* sanitized text is empty).
C20_TurnCompletes == \A g \in 1..MaxGen : StreamEnded(g) ~> TurnIsOver(g)

\* C21: each top-level call of the LLM stream function invokes the partial
\* callback zero or more times and then the stream-end callback exactly
\* once: the stream end is never delivered twice, no partial follows it, and
\* a call that has finished (normally, after tool-call rounds, without an API
\* client, or on a request error) has delivered it.
C21_OneStreamEndPerCall ==
  /\ llm.ends <= 1
  /\ ~llm.late
  /\ llm.pc \in LlmFinished => llm.ends = 1

\* the recognition of race r returns the guide phrase text before any press
\* has settled the race
GuideRecognized(r, text) ==
  /\ asrRaces[r].asrPending
  /\ ~asrRaces[r].settled
  /\ ~asrRaces'[r].asrPending
  /\ AsrResult(r, text, GuideResponse(text))

\* C22: each phrase the guide lists switches the mode: "Activate translate"
\* and "Enable translate" activate translate mode as "Translate mode" does,
\* "Disable translate" and "Deactivate translate" return to normal mode as
\* "Normal mode" does; the phrase is confirmed and starts no turn.
C22_GuidePhrasesSwitchMode ==
  [][\A r \in ChangedRaces : \A text \in GuidePhrases :
       \/ /\ translateMode' = (text \in GuideActivation)
          /\ CommandConfirmed
       \/ ~GuideRecognized(r, text)]_vars

\* a button press in Answering has called stop() in this step
StopStep == interrupted' # interrupted

\* how often playAudioData had been called for entry t before the step
PlaysBefore(t) == IF t <= Len(tts) THEN tts[t].nPlay ELSE 0

\* C23: every synthesis result pushed onto the playback queue and not
\* removed by a stop() is played exactly once, in the order of the pushes: no
\* entry is played twice, an entry leaves the queue without a stop() only
\* after it was played, and an entry is played only after the entries queued
\* before it.
C23_QueuePlayedOnceInOrder ==
  /\ [](\A t \in 1..Len(tts) : tts[t].nPlay <= 1)
  /\ [][StopStep \/
        \A i \in 1..Len(speakArray) :
          \/ (i <= Len(speakArray') /\ speakArray'[i] = speakArray[i])
          \/ tts'[speakArray[i]].nPlay = 1]_vars
  /\ [][\A i \in 1..Len(speakArray') :
          tts'[speakArray'[i]].nPlay > PlaysBefore(speakArray'[i]) =>
            \A j \in 1..(i - 1) : tts'[speakArray'[j]].nPlay >= 1]_vars

\* the handlers installed are the ones the entry into the recorded phase
\* registered last
HandlersOfPhase ==
  /\ HandlerOfPhase
  /\ releaseHandler = (IF currentFlowName = "listening" THEN "stopRecording"
                                                       ELSE "noop")

\* what a button press does in the recorded phase
PressEffect ==
  CASE currentFlowName = "sleep" ->
         currentFlowName' = "listening" /\ nListen' = nListen + 1
    [] currentFlowName = "listening" -> UNCHANGED vars
    [] currentFlowName = "asr" ->
         IF asrRaces[Len(asrRaces)].settled
         THEN UNCHANGED vars
         ELSE /\ asrRaces'[Len(asrRaces)].settled
              /\ currentFlowName' = "listening"
              /\ nListen' = nListen + 1
    [] currentFlowName = "answer" -> Cancelled
    [] OTHER -> FALSE

\* what a button release does in the recorded phase
ReleaseEffect ==
  IF currentFlowName = "listening"
  THEN /\ currentFlowName' = "asr"
       /\ Len(asrRaces') = Len(asrRaces) + 1
       /\ nListen' = nListen
  ELSE UNCHANGED vars

\* C24: whenever a button event can be delivered the one press handler and
\* the one release handler that are active are those the most recent phase
\* entry registered last: a press goes from Idle to Listening, is ignored in
\* Listening, interrupts Recognizing, and in Answering calls stop() and goes
\* to Listening (the handler registered first on entering Answering never
\* runs); a release stops the capture in Listening and does nothing else.
C24_LastRegisteredHandlers ==
  /\ []HandlersOfPhase
  /\ [][PressEffect \/ ~ButtonPress]_vars
  /\ [][ReleaseEffect \/ ~ButtonRelease]_vars

\* a cancelled turn was followed by a new recording whose recognition is in
\* progress under the press handler of that second recognition
C24_Witness ==
  /\ currentFlowName = "asr"
  /\ interrupted = {1}
  /\ Len(asrRaces) = 2
  /\ pressHandler = [kind |-> "asrResolve", race |-> 2]
  /\ releaseHandler = "noop"

\* the step accepts the first call of a generation newer than the current one
GenerationStarts == srAnswerId' > srAnswerId

\* the buffers after the step hold what the accepted call alone puts there:
\* the fragment of a partial(), or nothing after an endPartial(), which then
\* has no text to synthesize
BuffersHoldOnly(text) ==
  /\ fullResponse' = text
  /\ parsedSentences' = splitSentences(ReplaceNewlines(text)).sentences
  /\ partialContent' = splitSentences(ReplaceNewlines(text)).remaining

BuffersEmptied ==
  /\ fullResponse' = <<>>
  /\ parsedSentences' = <<>>
  /\ partialContent' = <<>>
  /\ tts' = tts

\* C25: the response buffer is per generation: when the first partial() or
\* endPartial() of a generation greater than the current one is accepted, the
\* remainder, the completed sentences and the accumulated text start empty,
\* so they hold no text of an earlier generation and the endPartial()
\* synthesizes none.
C25_BuffersPerGeneration ==
  [][GenerationStarts =>
       \/ BuffersEmptied
       \/ \E text \in ClientFragments : BuffersHoldOnly(text)]_vars

\* the step is a partial() that was accepted: only partial() lengthens the
\* accumulated text, by its fragment
PartialAccepted == Len(fullResponse') > Len(fullResponse)

AcceptedFragment ==
  SubSeq(fullResponse', Len(fullResponse) + 1, Len(fullResponse'))

IsSentencesEvent(e) == e.ev = "sentences"

\* the lists the sentences-updated callback was passed in the step
SentencesPassed == SelectSeq(client'.trace, IsSentencesEvent)

IsPrefix(s, t) == Len(s) <= Len(t) /\ SubSeq(t, 1, Len(s)) = s

\* C26: the list of completed sentences is append-only between two resets:
\* an accepted partial() invokes the sentences-updated callback at most once,
\* and only when the segmenter completed at least one new sentence; the list
\* it passes is the whole list of completed sentences, strictly longer than
\* the list before the call and with that list as a prefix; and afterwards
\* the remainder is the segmenter's remainder for the previous remainder
\* followed by the fragment with its newlines replaced by spaces.
C26_SentencesAppendOnly ==
  [][PartialAccepted =>
       LET r == splitSentences(partialContent \o ReplaceNewlines(AcceptedFragment))
       IN /\ partialContent' = r.remaining
          /\ Len(SentencesPassed) = (IF r.sentences = <<>> THEN 0 ELSE 1)
          /\ \A i \in 1..Len(SentencesPassed) :
               /\ SentencesPassed[i].arg = parsedSentences'
               /\ IsPrefix(parsedSentences, SentencesPassed[i].arg)
               /\ Len(SentencesPassed[i].arg) > Len(parsedSentences)
          /\ IsPrefix(parsedSentences, parsedSentences')]_vars

\* the fragment "!\ngo" has just completed a second sentence, "no! ", from
\* the remainder "no", and has left the remainder "go"
C26_Witness ==
  /\ Len(parsedSentences) = 2
  /\ parsedSentences[2] = <<"n","o","!"," ">>
  /\ partialContent = <<"g","o">>
  /\ Len(client.trace) = 1
  /\ client.trace[1].ev = "sentences"
  /\ client.trace[1].arg = parsedSentences

\* the step is an endPartial() that was accepted: only endPartial() calls
\* the full-text callback
IsTextEvent(e) == e.ev = "text"

EndPartialAccepted == SelectSeq(client'.trace, IsTextEvent) # <<>>

\* the completed sentences after the flush of the remainder
FlushedSentences == flushRemainder(parsedSentences, partialContent)

\* what endPartial() is to call, in order
EndPartialCalls ==
  (IF partialContent # <<>>
   THEN <<[ev |-> "sentences", arg |-> FlushedSentences]>>
   ELSE <<>>)
  \o <<[ev |-> "tts", arg |-> <<purifyTextForTTS(fullResponse)>>],
       [ev |-> "text", arg |-> <<Join(FlushedSentences, <<" ">>)>>]>>

\* C27: an accepted endPartial() performs, in this order: the flush of a
\* non-empty remainder as the last sentence with one more sentences-updated
\* callback; the push of the synthesis of the accumulated text onto the
\* queue; the full-text callback with the sentences joined; and on return
\* the remainder, the completed sentences and the accumulated text are empty
\* while the queue keeps the pushed entry.
C27_EndPartialOrder ==
  [][EndPartialAccepted =>
       /\ client'.trace = EndPartialCalls
       /\ partialContent' = <<>>
       /\ parsedSentences' = <<>>
       /\ fullResponse' = <<>>
       /\ Len(tts') = Len(tts) + 1
       /\ speakArray' = Append(speakArray, Len(tts'))
       /\ tts'[Len(tts')].text = purifyTextForTTS(fullResponse)]_vars

\* C28: at most one playback pump loop is active at any time: a pump is
\* started only when none is running, also after a stop() and when several
\* synthesis results settle, and the pump-running flag is set only while a
\* pump runs, so that after a pump has terminated a later endPartial() can
\* start a new one.
C28_SinglePump ==
  /\ [](Len(pumps) <= 1)
  /\ [](isStartSpeak => pumps # <<>>)
  /\ [][Len(pumps') > Len(pumps) => pumps = <<>>]_vars

\* C29: a failed or empty queue entry does not stall the pump: the pump
\* never plays an entry whose synthesis result is empty or rejected, no pump
\* stays suspended on a settled entry, and in the step in which the entry
\* that the only pump awaits (or the head of the queue, when the settlement
\* starts the pump) settles empty or rejected, the pump advances its cursor
\* past it and, when it ends, has resolved the playback-ended signal and
\* emptied the queue.
NoAudio(t) == tts'[t].st = "settled" /\ tts'[t].result \in {"empty", "failed"}

SettlesAwaited(t) ==
  /\ tts[t].st = "pending"
  /\ NoAudio(t)
  /\ \/ /\ isStartSpeak
        /\ Len(pumps) = 1
        /\ pumps[1].pc = "await"
        /\ pumps[1].entry = t
     \/ /\ ~isStartSpeak
        /\ pumps = <<>>
        /\ speakArray # <<>>
        /\ speakArray[1] = t

CursorBefore == IF pumps = <<>> THEN 0 ELSE pumps[1].currentIndex

PumpWentOn ==
  IF pumps' = <<>>
  THEN /\ speakArray' = <<>>
       /\ ~isStartSpeak'
       /\ playEndResolve' # 0 => handles'[playEndResolve'].resolved
  ELSE /\ Len(pumps') = 1
       /\ pumps'[1].currentIndex > CursorBefore

C29_FailedEntrySkipped ==
  /\ [](\A p \in 1..Len(pumps) :
          /\ pumps[p].pc = "playing" => tts[pumps[p].entry].result = "ok"
          /\ pumps[p].pc = "await" =>
                pumps[p].entry # 0 /\ tts[pumps[p].entry].st = "pending"
          /\ pumps[p].pc # "played")
  /\ [][\A t \in 1..Len(tts) : SettlesAwaited(t) => PumpWentOn]_vars

C29_Witness ==
  /\ Len(tts) = 1
  /\ tts[1].result = "failed"
  /\ pumps = <<>>
  /\ playEndResolve # 0
  /\ handles[playEndResolve].resolved
  /\ handles[playEndResolve].by = "pump"

\* C30: the merge pass of one splitSentences call glues consecutive
\* candidates greedily and in order: the chunks concatenated are the
\* candidates in their order, each followed by one space; every chunk ends
\* where a candidate ends; a chunk is longer than the budget of 60 only if
\* it is a single candidate; and a chunk other than the last one was closed
\* because the next candidate and its space would not fit.
RECURSIVE GluedLen(_, _)
\* length of the first i candidates, each followed by one space
GluedLen(c, i) == IF i = 0 THEN 0 ELSE GluedLen(c, i - 1) + Len(c[i]) + 1

RECURSIVE ChunksLen(_, _)
\* length of the first k chunks
ChunksLen(out, k) == IF k = 0 THEN 0 ELSE ChunksLen(out, k - 1) + Len(out[k])

\* index of the last candidate of chunk k (0 for k = 0)
LastOf(c, out, k) ==
  CHOOSE i \in 0..Len(c) : GluedLen(c, i) = ChunksLen(out, k)

MergeCandidates == MatchLoop(seg.text, 0, <<>>).sentences

C30_MergeGreedy ==
  seg.phase = "merged" =>
    LET c == MergeCandidates
        out == seg.sentences
    IN /\ Concat(out) = Concat([i \in 1..Len(c) |-> c[i] \o <<" ">>])
       /\ \A k \in 1..Len(out) :
            \E i \in 1..Len(c) : GluedLen(c, i) = ChunksLen(out, k)
       /\ \A k \in 1..Len(out) :
            LET first == LastOf(c, out, k - 1) + 1
                last == LastOf(c, out, k)
            IN /\ first <= last
               /\ Len(out[k]) <= MergeBudget \/ first = last
               /\ k < Len(out) =>
                    Len(out[k]) + Len(c[last + 1]) + 1 > MergeBudget

C30_Witness ==
  /\ seg.phase = "merged"
  /\ Len(MergeCandidates) = 3
  /\ Len(seg.sentences) = 2
  /\ Len(seg.sentences[1]) = MergeBudget
  /\ Len(seg.sentences[2]) > MergeBudget

\* C31: one splitSentences call loses no text: the remainder is the trimmed
\* input after the last terminal mark that is followed by whitespace or by
\* the end of the input, the returned sentences end at exactly those marks,
\* and the sentences followed by the remainder hold every non-whitespace
\* character of the input once and in order.
IsNotWhitespace(ch) == ch \notin Whitespace

NonWhitespace(s) == SelectSeq(s, IsNotWhitespace)

\* positions of the terminal marks followed by whitespace or end of input
AcceptedMarks(s) ==
  {q \in 1..Len(s) :
     s[q] \in Terminal /\ (q = Len(s) \/ s[q + 1] \in Whitespace)}

LastAcceptedMark(s) ==
  IF AcceptedMarks(s) = {} THEN 0
  ELSE CHOOSE q \in AcceptedMarks(s) : \A r \in AcceptedMarks(s) : r <= q

SegCallStep == seg.phase = "feeding" /\ seg'.fed > seg.fed

SegCallInput == seg.remainder \o SubSeq(seg.text, seg.fed + 1, seg'.fed)

SegCallSentences ==
  SubSeq(seg'.sentences, Len(seg.sentences) + 1, Len(seg'.sentences))

C31_NoTextLost ==
  [][SegCallStep =>
       LET input == SegCallInput
           out == Concat(SegCallSentences)
           last == LastAcceptedMark(input)
       IN /\ seg'.remainder = Trim(SubSeq(input, last + 1, Len(input)))
          /\ NonWhitespace(out) = NonWhitespace(SubSeq(input, 1, last))
          /\ Cardinality(AcceptedMarks(out)) = Cardinality(AcceptedMarks(input))
          /\ NonWhitespace(out \o seg'.remainder) = NonWhitespace(input)]_vars

\* a call whose input holds a mark that is not accepted, an accepted mark
\* and text behind it
C31_Witness ==
  /\ seg.text = <<"1", ".", "1", ".">>
  /\ seg.fed = 4
  /\ seg.phase = "feeding"
  /\ seg.sentences = <<<<"1", ".", "1", ".", " ">>>>
  /\ seg.remainder = <<>>

\* C32: translateWithDiarization calls its end callback exactly once on
\* every path and never calls the partial callback after it: at no time has
\* it ended twice, when it has returned it has ended once, a return before
\* the LLM call has emitted the no-speech text or the fallback text, and a
\* rejected LLM call has emitted the fallback text.
C32_TranslateEndsOnce ==
  /\ llm.ends <= 1
  /\ ~llm.late
  /\ tr.pc = "done" =>
       /\ llm.ends = 1
       /\ llm.pc = "idle" => tr.said \in {NoSpeechText, FallbackText}
       /\ llm.pc = "rejected" => tr.said = FallbackText

\* C33: the LLM request made by translateWithDiarization carries the
\* translate-mode prompt as its system prompt, and when the call has settled
\* SYSTEM_PROMPT has the value it had before the call.
C33_TranslatePromptScoped ==
  /\ [](tr.sent \in {"none", "translate"})
  /\ [][(tr.pc = "llm" /\ tr'.pc = "done") => tr'.env = tr.original]_vars

\* C34: each entry into Listening sets a recording path no earlier
\* recording had and ignores button presses; Listening is left only by the
\* button release, which enters Recognizing once, with the path that the
\* Listening just left had set; outside Listening a release does nothing, so
\* that every recording is recognized exactly once.
EntersListening == nListen' # nListen

EntersRecognizing == Len(asrRaces') # Len(asrRaces)

ThinkingAccepted == Len(partialThinking') > Len(partialThinking)

ShowingImage == pressHandler.kind = "imageToListening"

C35_ThinkingOnlyWhileAnswering ==
  /\ [][ThinkingAccepted =>
          /\ currentFlowName = "answer"
          /\ ~ShowingImage
          /\ \E g \in 1..Len(streams) : g >= answerId /\ StreamThinking(g)
          /\ display'.status = "Thinking"]_vars
  /\ [][(/\ display'.status = "Thinking"
          /\ <<display'.status, display'.text>> # <<display.status, display.text>>)
          => ThinkingAccepted]_vars
  /\ [][answerId' # answerId => partialThinking' = <<>>]_vars

\* C36: the pump-running flag is true only while a pump loop is active
\* (awaiting an entry, playing, or in its retry delay), and a queue entry
\* whose synthesis has settled always has a pump that will consume it.
SettledInQueue ==
  \E i \in 1..Len(speakArray) : tts[speakArray[i]].st = "settled"

C36_FlagOnlyWhilePumping ==
  /\ isStartSpeak => pumps # <<>>
  /\ SettledInQueue => pumps # <<>>

\* C37: a playAudioData call is started only while the controller is
\* answering, and only for the synthesis of the generation being answered;
\* the player is never playing while the controller is listening.
PlayStarts(t) == tts'[t].nPlay > PlaysBefore(t)

C37_PlaybackOnlyWhileAnswering ==
  /\ [][\A t \in 1..Len(tts') :
          PlayStarts(t) =>
            currentFlowName = "answer" /\ tts'[t].gen = answerId]_vars
  /\ [](currentFlowName = "listening" => ~playerIsPlaying)

\* C38: the generation value of the StreamResponser never decreases and
\* never exceeds the generation counter of the controller; it changes only
\* in a step in which a stream calls partial() or endPartial(), and a step
\* in which the press handler calls stop() leaves it unchanged.
C38_OrchestratorGeneration ==
  /\ [](srAnswerId <= answerId)
  /\ [][srAnswerId' >= srAnswerId]_vars
  /\ [][srAnswerId' # srAnswerId =>
          \E g \in 1..Len(streams) : StreamPartial(g) \/ StreamEnd(g)]_vars
  /\ [][StopStep => srAnswerId' = srAnswerId]_vars

\* generation 1 was stopped, and the orchestrator has since accepted a
\* callback of generation 2
C38_Witness ==
  /\ interrupted = {1}
  /\ answerId = 2
  /\ srAnswerId = 2

====
